---- MODULE Spec2Model ----
(***************************************************************************)
(* The Kafka schema translation layer of the provider                      *)
(* (yandex/mdb_kafka_structures.go): expansion of the declarative tree     *)
(* into API messages, user diffing and the deterministic ordering of users *)
(* and permissions.                                                        *)
(*                                                                         *)
(* A Go string is a sequence of one-character strings, so that prefixes,   *)
(* byte-wise ordering and digit parsing are computed as the code computes  *)
(* them.  A Go pointer is a sequence of length 0 (nil) or 1.  An error is  *)
(* a sequence of length 0 (nil) or 1 holding the message format, the keys  *)
(* it lists and the offending value.                                       *)
(***************************************************************************)
EXTENDS Integers, Sequences, FiniteSets, TLC

VARIABLES
    d,      \* the declarative tree (*schema.ResourceData) the call reads
    call,   \* "idle" before the call, the name of the function after it
    args,   \* the explicit arguments of the call
    ret     \* what the call returned

vars == <<d, call, args, ret>>

----------------------------------------------------------------------------
(* Bounds of the explored inputs.                                          *)

MaxVersionLen == 3
MaxUsers == 2
MaxPermissions == 2

----------------------------------------------------------------------------
(* Strings.                                                                *)

Nil == <<>>
Some(v) == <<v>>
NoErr == <<>>
Errorf(fmt, keys, value) == <<[fmt |-> fmt, keys |-> keys, value |-> value]>>

\* The printable ASCII characters from code 32 on; the three characters that
\* cannot stand in a string literal are never used and hold a placeholder.
Ascii ==
  <<" ", "!", "DQUOTE", "#", "$", "%", "&", "'", "(", ")", "*", "+", ",", "-", ".", "/",
    "0", "1", "2", "3", "4", "5", "6", "7", "8", "9", ":", ";", "<", "=", ">", "?",
    "@", "A", "B", "C", "D", "E", "F", "G", "H", "I", "J", "K", "L", "M", "N", "O",
    "P", "Q", "R", "S", "T", "U", "V", "W", "X", "Y", "Z", "[", "BSLASH", "]", "^", "_",
    "BTICK", "a", "b", "c", "d", "e", "f", "g", "h", "i", "j", "k", "l", "m", "n", "o",
    "p", "q", "r", "s", "t", "u", "v", "w", "x", "y", "z", "{", "|", "}", "~">>

CharCode ==
  [c \in {Ascii[i] : i \in 1..Len(Ascii)} |->
      31 + (CHOOSE i \in 1..Len(Ascii) : Ascii[i] = c)]

Min(a, b) == IF a < b THEN a ELSE b

\* Go's s < t on strings: byte-wise lexicographic order.
StrLess(s, t) ==
  \E i \in 1..(Min(Len(s), Len(t)) + 1) :
     /\ \A j \in 1..(i - 1) : s[j] = t[j]
     /\ \/ i > Len(s) /\ i <= Len(t)
        \/ i <= Len(s) /\ i <= Len(t) /\ CharCode[s[i]] < CharCode[t[i]]

\* strings.HasPrefix(s, prefix)
HasPrefix(s, prefix) ==
  /\ Len(s) >= Len(prefix)
  /\ SubSeq(s, 1, Len(prefix)) = prefix

\* strings.Join(elems, sep)
RECURSIVE Join(_, _)
Join(elems, sep) ==
  IF Len(elems) = 0 THEN <<>>
  ELSE IF Len(elems) = 1 THEN elems[1]
  ELSE elems[1] \o sep \o Join(Tail(elems), sep)

\* Insertion of x into the ascending sequence s, after the elements equal to it.
RECURSIVE InsertSorted(_, _)
InsertSorted(x, s) ==
  IF Len(s) = 0 THEN <<x>>
  ELSE IF StrLess(x, s[1]) THEN <<x>> \o s
  ELSE <<s[1]>> \o InsertSorted(x, Tail(s))

\* sort.Strings(a): the order on strings is total, so the result is unique.
RECURSIVE SortStrings(_)
SortStrings(a) ==
  IF Len(a) = 0 THEN <<>> ELSE InsertSorted(a[1], SortStrings(Tail(a)))

Range(s) == {s[i] : i \in 1..Len(s)}

\* All sequences over S of length at most n.
SeqUpTo(S, n) == UNION {[1..k -> S] : k \in 0..n}

\* The rearrangements of the sequence s.
Rearrangements(s) ==
  {[i \in 1..Len(s) |-> s[p[i]]] : p \in Permutations(1..Len(s))}

\* sort.Slice(s, less) is not stable: any rearrangement of s in which no
\* element is less than an earlier one can be the result.  less is the set
\* of the pairs <<x, y>> of elements of s with x less than y.
SortSliceResults(s, less) ==
  {r \in Rearrangements(s) :
      \A i \in 1..Len(r) : \A j \in (i + 1)..Len(r) : <<r[j], r[i]>> \notin less}

----------------------------------------------------------------------------
(* Enumeration tables.                                                     *)

Topic_CleanupPolicy_value ==
  <<"C","L","E","A","N","U","P","_","P","O","L","I","C","Y","_","U","N","S","P","E","C","I","F","I","E","D">> :> 0 @@
  <<"C","L","E","A","N","U","P","_","P","O","L","I","C","Y","_","D","E","L","E","T","E">> :> 1 @@
  <<"C","L","E","A","N","U","P","_","P","O","L","I","C","Y","_","C","O","M","P","A","C","T">> :> 2 @@
  <<"C","L","E","A","N","U","P","_","P","O","L","I","C","Y","_","C","O","M","P","A","C","T","_","A","N","D","_","D","E","L","E","T","E">> :> 3

Cluster_Environment_value ==
  <<"E","N","V","I","R","O","N","M","E","N","T","_","U","N","S","P","E","C","I","F","I","E","D">> :> 0 @@
  <<"P","R","O","D","U","C","T","I","O","N">> :> 1 @@
  <<"P","R","E","S","T","A","B","L","E">> :> 2

CompressionType_value ==
  <<"C","O","M","P","R","E","S","S","I","O","N","_","T","Y","P","E","_","U","N","S","P","E","C","I","F","I","E","D">> :> 0 @@
  <<"C","O","M","P","R","E","S","S","I","O","N","_","T","Y","P","E","_","U","N","C","O","M","P","R","E","S","S","E","D">> :> 1 @@
  <<"C","O","M","P","R","E","S","S","I","O","N","_","T","Y","P","E","_","Z","S","T","D">> :> 2 @@
  <<"C","O","M","P","R","E","S","S","I","O","N","_","T","Y","P","E","_","L","Z","4">> :> 3 @@
  <<"C","O","M","P","R","E","S","S","I","O","N","_","T","Y","P","E","_","S","N","A","P","P","Y">> :> 4 @@
  <<"C","O","M","P","R","E","S","S","I","O","N","_","T","Y","P","E","_","G","Z","I","P">> :> 5 @@
  <<"C","O","M","P","R","E","S","S","I","O","N","_","T","Y","P","E","_","P","R","O","D","U","C","E","R">> :> 6

SaslMechanism_value ==
  <<"S","A","S","L","_","M","E","C","H","A","N","I","S","M","_","U","N","S","P","E","C","I","F","I","E","D">> :> 0 @@
  <<"S","A","S","L","_","M","E","C","H","A","N","I","S","M","_","S","C","R","A","M","_","S","H","A","_","2","5","6">> :> 1 @@
  <<"S","A","S","L","_","M","E","C","H","A","N","I","S","M","_","S","C","R","A","M","_","S","H","A","_","5","1","2">> :> 2

Permission_AccessRole_value ==
  <<"A","C","C","E","S","S","_","R","O","L","E","_","U","N","S","P","E","C","I","F","I","E","D">> :> 0 @@
  <<"A","C","C","E","S","S","_","R","O","L","E","_","P","R","O","D","U","C","E","R">> :> 1 @@
  <<"A","C","C","E","S","S","_","R","O","L","E","_","C","O","N","S","U","M","E","R">> :> 2 @@
  <<"A","C","C","E","S","S","_","R","O","L","E","_","A","D","M","I","N">> :> 3

\* Permission_AccessRole.String(): the name of an ordinal of the table.
AccessRoleString(role) ==
  CHOOSE n \in DOMAIN Permission_AccessRole_value :
     Permission_AccessRole_value[n] = role

\* The strings of the set S in ascending order.
RECURSIVE SortedKeys(_)
SortedKeys(S) ==
  IF S = {} THEN <<>>
  ELSE LET x == CHOOSE x \in S : \A y \in S : x = y \/ StrLess(x, y)
       IN  <<x>> \o SortedKeys(S \ {x})

\* The keys of an enumeration table, sorted, without the zero member when
\* skipDefault is set.
getEnumValueMapKeysExt(m, skipDefault) ==
  SortedKeys({k \in DOMAIN m : ~(skipDefault /\ m[k] = 0)})

getEnumValueMapKeys(m) == getEnumValueMapKeysExt(m, FALSE)

parseKafkaEnv(e) ==
  IF e \notin DOMAIN Cluster_Environment_value
  THEN [val |-> 0,
        err |-> Errorf("value for 'environment' must be one of %s, not %s",
                       getEnumValueMapKeys(Cluster_Environment_value), e)]
  ELSE [val |-> Cluster_Environment_value[e], err |-> NoErr]

parseKafkaCompression(e) ==
  IF e \notin DOMAIN CompressionType_value \/ e = <<"C","O","M","P","R","E","S","S","I","O","N","_","T","Y","P","E","_","U","N","S","P","E","C","I","F","I","E","D">>
  THEN [val |-> 0,
        err |-> Errorf("value for 'compression_type' must be one of %s, not %s",
                       getEnumValueMapKeysExt(CompressionType_value, TRUE), e)]
  ELSE [val |-> CompressionType_value[e], err |-> NoErr]

\* A parser without the test of the table: a string that is no member name
\* gives the zero member and no error.
parseKafkaSaslMechanismUnchecked(e) ==
  [val |-> IF e \in DOMAIN SaslMechanism_value THEN SaslMechanism_value[e] ELSE 0,
   err |-> NoErr]

parseKafkaSaslMechanism(e) ==
  IF e \notin DOMAIN SaslMechanism_value \/ e = <<"S","A","S","L","_","M","E","C","H","A","N","I","S","M","_","U","N","S","P","E","C","I","F","I","E","D">>
  THEN [val |-> 0,
        err |-> Errorf("value for 'sasl_mechanism' must be one of %s, not %s",
                       getEnumValueMapKeysExt(SaslMechanism_value, TRUE), e)]
  ELSE [val |-> SaslMechanism_value[e], err |-> NoErr]

parseKafkaPermissionRole(e) ==
  IF e \notin DOMAIN Permission_AccessRole_value
  THEN [val |-> 0,
        err |-> Errorf("value for 'role' must be one of %s, not %s",
                       getEnumValueMapKeys(Permission_AccessRole_value), e)]
  ELSE [val |-> Permission_AccessRole_value[e], err |-> NoErr]

parseKafkaTopicCleanupPolicy(e) ==
  IF e \notin DOMAIN Topic_CleanupPolicy_value \/ e = <<"C","L","E","A","N","U","P","_","P","O","L","I","C","Y","_","U","N","S","P","E","C","I","F","I","E","D">>
  THEN [val |-> 0,
        err |-> Errorf("value for 'cleanup_policy' must be one of %s, not %s",
                       getEnumValueMapKeysExt(Topic_CleanupPolicy_value, TRUE), e)]
  ELSE [val |-> Topic_CleanupPolicy_value[e], err |-> NoErr]

----------------------------------------------------------------------------
(* Integers carried as decimal strings.                                    *)
(* A 64-bit value is the pair of its sign and the decimal digits of its    *)
(* magnitude without leading zeros, so that the range check of             *)
(* strconv.ParseInt is decided on the digits.                              *)

Digits == {"0", "1", "2", "3", "4", "5", "6", "7", "8", "9"}

RECURSIVE StripZeros(_)
StripZeros(ds) ==
  IF Len(ds) > 1 /\ ds[1] = "0" THEN StripZeros(Tail(ds)) ELSE ds

\* a <= b for digit strings without leading zeros
MagLessEq(a, b) ==
  \/ Len(a) < Len(b)
  \/ Len(a) = Len(b) /\ (a = b \/ StrLess(a, b))

MaxInt64Mag == <<"9","2","2","3","3","7","2","0","3","6","8","5","4","7","7","5","8","0","7">>
MinInt64Mag == <<"9","2","2","3","3","7","2","0","3","6","8","5","4","7","7","5","8","0","8">>

Int64Zero == [neg |-> FALSE, mag |-> <<"0">>]

\* strconv.ParseInt(s, 10, 64)
ParseInt(s) ==
  LET signed == Len(s) > 0 /\ s[1] \in {"+", "-"}
      neg    == Len(s) > 0 /\ s[1] = "-"
      body   == IF signed THEN Tail(s) ELSE s
  IN  IF Len(body) = 0 \/ \E i \in 1..Len(body) : body[i] \notin Digits
      THEN [val |-> Int64Zero,
            err |-> Errorf("strconv.ParseInt: parsing %q: invalid syntax", <<>>, s)]
      ELSE LET mag == StripZeros(body)
           IN  IF ~MagLessEq(mag, IF neg THEN MinInt64Mag ELSE MaxInt64Mag)
               THEN [val |-> Int64Zero,
                     err |-> Errorf("strconv.ParseInt: parsing %q: value out of range",
                                    <<>>, s)]
               ELSE [val |-> [neg |-> neg /\ mag # <<"0">>, mag |-> mag],
                     err |-> NoErr]

----------------------------------------------------------------------------
(* kafka_config.                                                           *)

\* The integer settings of kafka_config in the order parseKafkaConfig reads
\* them: the field of KafkaConfig and the attribute under kafkaConfigPath.
KafkaIntParams ==
  << <<"LogFlushIntervalMessages", "log_flush_interval_messages">>,
     <<"LogFlushIntervalMs", "log_flush_interval_ms">>,
     <<"LogFlushSchedulerIntervalMs", "log_flush_scheduler_interval_ms">>,
     <<"LogRetentionBytes", "log_retention_bytes">>,
     <<"LogRetentionHours", "log_retention_hours">>,
     <<"LogRetentionMinutes", "log_retention_minutes">>,
     <<"LogRetentionMs", "log_retention_ms">>,
     <<"LogSegmentBytes", "log_segment_bytes">>,
     <<"SocketSendBufferBytes", "socket_send_buffer_bytes">>,
     <<"SocketReceiveBufferBytes", "socket_receive_buffer_bytes">>,
     <<"NumPartitions", "num_partitions">>,
     <<"DefaultReplicationFactor", "default_replication_factor">>,
     <<"MessageMaxBytes", "message_max_bytes">>,
     <<"ReplicaFetchMaxBytes", "replica_fetch_max_bytes">>,
     <<"OffsetsRetentionMinutes", "offsets_retention_minutes">> >>

KafkaIntParamNames == {KafkaIntParams[i][2] : i \in 1..Len(KafkaIntParams)}

\* d.GetOk(kafkaConfigPath + "." + paramName) of a string attribute: the
\* value, and ok only when it is not the empty string.
kafkaConfigPath(dd) == dd.config.kafka.kafka_config

\* A reader that returns a wrapper of 0 for a setting that is not set.
parseIntKafkaConfigParamZeroDefault(dd, paramName, retErr) ==
  LET v == kafkaConfigPath(dd)[paramName]
  IN  IF v = <<>> THEN [val |-> Some(Int64Zero), retErr |-> retErr]
      ELSE LET p == ParseInt(v)
           IN  IF p.err # NoErr
               THEN [val |-> Nil,
                     retErr |-> IF retErr # NoErr THEN p.err ELSE retErr]
               ELSE [val |-> Some(p.val), retErr |-> retErr]

\* Returns the wrapper and the error variable as the call leaves it.
parseIntKafkaConfigParam(dd, paramName, retErr) ==
  LET v == kafkaConfigPath(dd)[paramName]
  IN  IF v = <<>> THEN [val |-> Nil, retErr |-> retErr]
      ELSE LET p == ParseInt(v)
           IN  IF p.err # NoErr
               THEN [val |-> Nil,
                     retErr |-> IF retErr # NoErr THEN p.err ELSE retErr]
               ELSE [val |-> Some(p.val), retErr |-> retErr]

\* The value a singleton set holds. A value that is read several times is
\* bound as the member of a singleton, so that it is computed once.
Only(S) == CHOOSE x \in S : TRUE

\* One more integer setting read: its value after the values read before it,
\* and the error variable as its call leaves it.
IntParamRead(prev, r) == [vals |-> Append(prev.vals, r.val), retErr |-> r.retErr]

\* The first n integer settings of parseKafkaConfig, read in the order of
\* the calls, each call handed retErr as the call before it left it.
RECURSIVE KafkaIntsAfter(_, _)
KafkaIntsAfter(dd, n) ==
  IF n = 0 THEN [vals |-> <<>>, retErr |-> NoErr]
  ELSE Only({IntParamRead(prev,
                          parseIntKafkaConfigParam(dd, KafkaIntParams[n][2],
                                                   prev.retErr)) :
               prev \in {KafkaIntsAfter(dd, n - 1)}})

parseSetToStringArray(set) == set

parseSslCipherSuites(sslCipherSuites) == parseSetToStringArray(sslCipherSuites)

\* The mechanisms in the order of the set; the first bad one ends the scan.
RECURSIVE parseSaslEnabledMechanisms(_)
parseSaslEnabledMechanisms(sliceOfMechanisms) ==
  IF Len(sliceOfMechanisms) = 0 THEN [val |-> <<>>, err |-> NoErr]
  ELSE LET m    == parseKafkaSaslMechanism(sliceOfMechanisms[1])
           rest == parseSaslEnabledMechanisms(Tail(sliceOfMechanisms))
       IN  IF m.err # NoErr THEN [val |-> <<>>, err |-> m.err]
           ELSE IF rest.err # NoErr THEN rest
           ELSE [val |-> <<m.val>> \o rest.val, err |-> NoErr]

parseKafkaConfig(dd) ==
  LET kc     == kafkaConfigPath(dd)
      comp   == parseKafkaCompression(kc.compression_type)
      sasl   == parseSaslEnabledMechanisms(kc.sasl_enabled_mechanisms)
      res(ints) ==
        [CompressionType |-> IF kc.compression_type # <<>> THEN comp.val ELSE 0,
         LogFlushIntervalMessages |-> ints[1],
         LogFlushIntervalMs |-> ints[2],
         LogFlushSchedulerIntervalMs |-> ints[3],
         LogRetentionBytes |-> ints[4],
         LogRetentionHours |-> ints[5],
         LogRetentionMinutes |-> ints[6],
         LogRetentionMs |-> ints[7],
         LogSegmentBytes |-> ints[8],
         LogPreallocate |-> Nil,
         SocketSendBufferBytes |-> ints[9],
         SocketReceiveBufferBytes |-> ints[10],
         AutoCreateTopicsEnable |->
            IF kc.auto_create_topics_enable THEN Some(TRUE) ELSE Nil,
         NumPartitions |-> ints[11],
         DefaultReplicationFactor |-> ints[12],
         MessageMaxBytes |-> ints[13],
         ReplicaFetchMaxBytes |-> ints[14],
         SslCipherSuites |->
            IF Len(kc.ssl_cipher_suites) > 0
            THEN SortStrings(parseSslCipherSuites(kc.ssl_cipher_suites))
            ELSE <<>>,
         OffsetsRetentionMinutes |-> ints[15],
         SaslEnabledMechanisms |->
            IF Len(kc.sasl_enabled_mechanisms) > 0 THEN sasl.val ELSE <<>>]
  IN  IF kc.compression_type # <<>> /\ comp.err # NoErr
      THEN [val |-> Nil, err |-> comp.err]
      ELSE IF Len(kc.sasl_enabled_mechanisms) > 0 /\ sasl.err # NoErr
      THEN [val |-> Nil, err |-> sasl.err]
      ELSE Only({IF read.retErr # NoErr
                 THEN [val |-> Nil, err |-> read.retErr]
                 ELSE [val |-> Some(res(read.vals)), err |-> NoErr] :
                   read \in {KafkaIntsAfter(dd, Len(KafkaIntParams))}})

\* Both expanders copy every field of the parsed settings; the messages
\* differ in their type only.
expandKafkaConfig2_8(dd) ==
  LET kafkaConfig == parseKafkaConfig(dd)
  IN  IF kafkaConfig.err # NoErr THEN [val |-> Nil, err |-> kafkaConfig.err]
      ELSE [val |-> Some([type |-> "KafkaConfig2_8", settings |-> kafkaConfig.val[1]]),
            err |-> NoErr]

expandKafkaConfig3x(dd) ==
  LET kafkaConfig == parseKafkaConfig(dd)
  IN  IF kafkaConfig.err # NoErr THEN [val |-> Nil, err |-> kafkaConfig.err]
      ELSE [val |-> Some([type |-> "KafkaConfig3", settings |-> kafkaConfig.val[1]]),
            err |-> NoErr]

----------------------------------------------------------------------------
(* The config block.                                                       *)

\* toBytes(gigabytes): a byte count is held as whole gibibytes plus a rest
\* below 2^30, so that the factor 2^30 needs no wide arithmetic.
toBytes(gigabytesCount) == [gib |-> gigabytesCount, rem |-> 0]

\* rootKey is the resources block (".resources.0") read by the three GetOk.
expandKafkaResources(dd, rootKey) ==
  [ResourcePresetId |-> rootKey.resource_preset_id,
   DiskSize |-> toBytes(rootKey.disk_size),
   DiskTypeId |-> rootKey.disk_type_id]

\* A block of the tree is a sequence of at most one record; GetOkExists and
\* GetOk of the block are true when the sequence is not empty.
expandKafkaAccess(dd) ==
  IF Len(dd.config.access) = 0 THEN Nil
  ELSE Some([DataTransfer |-> dd.config.access[1].data_transfer])

expandKafkaRestAPI(dd) ==
  IF Len(dd.config.rest_api) = 0 THEN Nil
  ELSE Some([Enabled |-> dd.config.rest_api[1].enabled])

\* An expansion that returns no object for a block of defaults.
expandKafkaDiskSizeAutoscalingNilOnDefaults(dd) ==
  IF Len(dd.config.disk_size_autoscaling) = 0 THEN Nil
  ELSE LET b == dd.config.disk_size_autoscaling[1]
       IN  IF b.disk_size_limit = 0 /\ b.planned_usage_threshold = 0
              /\ b.emergency_usage_threshold = 0
           THEN Nil
           ELSE Some([DiskSizeLimit |-> toBytes(b.disk_size_limit),
                      PlannedUsageThreshold |-> b.planned_usage_threshold,
                      EmergencyUsageThreshold |-> b.emergency_usage_threshold])

\* An expansion that keeps the thresholds in 0..100 and the emergency
\* threshold not below the planned one.
expandKafkaDiskSizeAutoscalingValidated(dd) ==
  IF Len(dd.config.disk_size_autoscaling) = 0 THEN Nil
  ELSE LET b == dd.config.disk_size_autoscaling[1]
       IN  IF b.planned_usage_threshold \notin 0..100
              \/ b.emergency_usage_threshold \notin 0..100
              \/ b.emergency_usage_threshold < b.planned_usage_threshold
           THEN Nil
           ELSE Some([DiskSizeLimit |-> toBytes(b.disk_size_limit),
                      PlannedUsageThreshold |-> b.planned_usage_threshold,
                      EmergencyUsageThreshold |-> b.emergency_usage_threshold])

expandKafkaDiskSizeAutoscaling(dd) ==
  IF Len(dd.config.disk_size_autoscaling) = 0 THEN Nil
  ELSE LET b == dd.config.disk_size_autoscaling[1]
       IN  Some([DiskSizeLimit |-> toBytes(b.disk_size_limit),
                 PlannedUsageThreshold |-> b.planned_usage_threshold,
                 EmergencyUsageThreshold |-> b.emergency_usage_threshold])

\* The resources of an optional subcluster block (zookeeper, kraft).
SubclusterResources(dd, block) ==
  IF Len(block) = 0 THEN Nil
  ELSE Some([Resources |-> expandKafkaResources(dd, block[1].resources)])

\* The dispatch on the version: the oneof member of ConfigSpec_Kafka that
\* is set, or the error that ends expandKafkaConfigSpec.
\* A dispatch that tests the version for equality with "3".
versionDispatchExact3(dd, version) ==
  IF version = <<"3">> THEN
    LET cfg == expandKafkaConfig3x(dd)
    IN  IF cfg.err # NoErr THEN [val |-> Nil, err |-> cfg.err]
        ELSE [val |-> Some([oneof |-> "KafkaConfig_3", cfg |-> cfg.val[1]]),
              err |-> NoErr]
  ELSE IF version = <<"2",".","8">> THEN
    LET cfg == expandKafkaConfig2_8(dd)
    IN  IF cfg.err # NoErr THEN [val |-> Nil, err |-> cfg.err]
        ELSE [val |-> Some([oneof |-> "KafkaConfig_2_8", cfg |-> cfg.val[1]]),
              err |-> NoErr]
  ELSE IF version = <<>> THEN
    [val |-> Nil, err |-> Errorf("you must specify version of Kafka", <<>>, <<>>)]
  ELSE
    [val |-> Nil,
     err |-> Errorf("this version of Kafka not supported by Terraform provider",
                    <<>>, <<>>)]

\* A dispatch whose last branch returns the result without a Kafka config.
versionDispatchNoElse(dd, version) ==
  IF HasPrefix(version, <<"3">>) THEN
    LET cfg == expandKafkaConfig3x(dd)
    IN  IF cfg.err # NoErr THEN [val |-> Nil, err |-> cfg.err]
        ELSE [val |-> Some([oneof |-> "KafkaConfig_3", cfg |-> cfg.val[1]]),
              err |-> NoErr]
  ELSE IF version = <<"2",".","8">> THEN
    LET cfg == expandKafkaConfig2_8(dd)
    IN  IF cfg.err # NoErr THEN [val |-> Nil, err |-> cfg.err]
        ELSE [val |-> Some([oneof |-> "KafkaConfig_2_8", cfg |-> cfg.val[1]]),
              err |-> NoErr]
  ELSE IF version = <<>> THEN
    [val |-> Nil, err |-> Errorf("you must specify version of Kafka", <<>>, <<>>)]
  ELSE
    [val |-> Nil, err |-> NoErr]

\* A dispatch without the test for the empty version.
versionDispatchNoEmptyTest(dd, version) ==
  IF HasPrefix(version, <<"3">>) THEN
    LET cfg == expandKafkaConfig3x(dd)
    IN  IF cfg.err # NoErr THEN [val |-> Nil, err |-> cfg.err]
        ELSE [val |-> Some([oneof |-> "KafkaConfig_3", cfg |-> cfg.val[1]]),
              err |-> NoErr]
  ELSE IF version = <<"2",".","8">> THEN
    LET cfg == expandKafkaConfig2_8(dd)
    IN  IF cfg.err # NoErr THEN [val |-> Nil, err |-> cfg.err]
        ELSE [val |-> Some([oneof |-> "KafkaConfig_2_8", cfg |-> cfg.val[1]]),
              err |-> NoErr]
  ELSE
    [val |-> Nil,
     err |-> Errorf("this version of Kafka not supported by Terraform provider",
                    <<>>, <<>>)]

versionDispatch(dd, version) ==
  IF HasPrefix(version, <<"3">>) THEN
    LET cfg == expandKafkaConfig3x(dd)
    IN  IF cfg.err # NoErr THEN [val |-> Nil, err |-> cfg.err]
        ELSE [val |-> Some([oneof |-> "KafkaConfig_3", cfg |-> cfg.val[1]]),
              err |-> NoErr]
  ELSE IF version = <<"2",".","8">> THEN
    LET cfg == expandKafkaConfig2_8(dd)
    IN  IF cfg.err # NoErr THEN [val |-> Nil, err |-> cfg.err]
        ELSE [val |-> Some([oneof |-> "KafkaConfig_2_8", cfg |-> cfg.val[1]]),
              err |-> NoErr]
  ELSE IF version = <<>> THEN
    [val |-> Nil, err |-> Errorf("you must specify version of Kafka", <<>>, <<>>)]
  ELSE
    [val |-> Nil,
     err |-> Errorf("this version of Kafka not supported by Terraform provider",
                    <<>>, <<>>)]

expandKafkaConfigSpec(dd) ==
  LET c        == dd.config
      version  == c.version
      dispatch == versionDispatch(dd, version)
      result   ==
        [Version |-> c.version,
         BrokersCount |-> IF c.brokers_count # 0 THEN Some(c.brokers_count) ELSE Nil,
         AssignPublicIp |-> c.assign_public_ip,
         SchemaRegistry |-> c.schema_registry,
         ZoneId |-> c.zones,
         Kafka |-> [Resources |-> expandKafkaResources(dd, c.kafka.resources),
                    KafkaConfig |-> dispatch.val],
         Zookeeper |-> SubclusterResources(dd, c.zookeeper),
         Kraft |-> SubclusterResources(dd, c.kraft),
         Access |-> expandKafkaAccess(dd),
         RestApiConfig |-> expandKafkaRestAPI(dd),
         DiskSizeAutoscaling |-> expandKafkaDiskSizeAutoscaling(dd)]
  IN  IF dispatch.err # NoErr THEN [val |-> Nil, err |-> dispatch.err]
      ELSE [val |-> Some(result), err |-> NoErr]

----------------------------------------------------------------------------
(* Declarative trees.                                                      *)

EmptyKafkaConfig ==
  [p \in KafkaIntParamNames |-> <<>>] @@
  [compression_type |-> <<>>,
   auto_create_topics_enable |-> FALSE,
   ssl_cipher_suites |-> <<>>,
   sasl_enabled_mechanisms |-> <<>>]

\* The kafka_config of examples/mdb_kafka_cluster/r_mdb_kafka_cluster_1.tf
ExampleKafkaConfig ==
  [EmptyKafkaConfig EXCEPT
     !.compression_type = <<"C","O","M","P","R","E","S","S","I","O","N","_","T","Y","P","E","_","Z","S","T","D">>,
     !.log_flush_interval_messages = <<"1","0","2","4">>,
     !.log_flush_interval_ms = <<"1","0","0","0">>,
     !.log_flush_scheduler_interval_ms = <<"1","0","0","0">>,
     !.log_retention_bytes = <<"1","0","7","3","7","4","1","8","2","4">>,
     !.log_retention_hours = <<"1","6","8">>,
     !.log_retention_minutes = <<"1","0","0","8","0">>,
     !.log_retention_ms = <<"8","6","4","0","0","0","0","0">>,
     !.log_segment_bytes = <<"1","3","4","2","1","7","7","2","8">>,
     !.num_partitions = <<"1","0">>,
     !.default_replication_factor = <<"1">>,
     !.message_max_bytes = <<"1","0","4","8","5","8","8">>,
     !.replica_fetch_max_bytes = <<"1","0","4","8","5","7","6">>,
     !.ssl_cipher_suites = <<<<"T","L","S","_","E","C","D","H","E","_","R","S","A","_","W","I","T","H","_","C","H","A","C","H","A","2","0","_","P","O","L","Y","1","3","0","5","_","S","H","A","2","5","6">>,
                             <<"T","L","S","_","D","H","E","_","R","S","A","_","W","I","T","H","_","A","E","S","_","1","2","8","_","C","B","C","_","S","H","A">>>>,
     !.offsets_retention_minutes = <<"1","0","0","8","0">>,
     !.sasl_enabled_mechanisms = <<<<"S","A","S","L","_","M","E","C","H","A","N","I","S","M","_","S","C","R","A","M","_","S","H","A","_","2","5","6">>,
                                   <<"S","A","S","L","_","M","E","C","H","A","N","I","S","M","_","S","C","R","A","M","_","S","H","A","_","5","1","2">>>>]

ExampleResources ==
  [resource_preset_id |-> <<"s","2",".","m","i","c","r","o">>, disk_size |-> 32, disk_type_id |-> <<"n","e","t","w","o","r","k","-","s","s","d">>]

\* The config block of the example, without a version and without settings.
ExampleConfig ==
  [version |-> <<>>,
   brokers_count |-> 1,
   zones |-> <<<<"r","u","-","c","e","n","t","r","a","l","1","-","a">>>>,
   assign_public_ip |-> FALSE,
   schema_registry |-> FALSE,
   kafka |-> [resources |-> ExampleResources, kafka_config |-> EmptyKafkaConfig],
   zookeeper |-> <<>>,
   kraft |-> <<>>,
   access |-> <<>>,
   rest_api |-> <<[enabled |-> TRUE]>>,
   disk_size_autoscaling |-> <<>>]

\* A config block with every optional block present.
FullConfig ==
  [ExampleConfig EXCEPT
     !.brokers_count = 2,
     !.assign_public_ip = TRUE,
     !.schema_registry = TRUE,
     !.zookeeper = <<[resources |-> ExampleResources]>>,
     !.kraft = <<[resources |-> ExampleResources]>>,
     !.access = <<[data_transfer |-> TRUE]>>,
     !.disk_size_autoscaling =
        <<[disk_size_limit |-> 100, planned_usage_threshold |-> 70,
           emergency_usage_threshold |-> 90]>>]

EmptyTree ==
  [config |-> ExampleConfig, user |-> <<>>, topic |-> <<>>,
   maintenance_window |-> <<>>]

TreeWithConfig(c, version, kc) ==
  [EmptyTree EXCEPT !.config = [c EXCEPT !.version = version,
                                         !.kafka.kafka_config = kc]]

\* Version strings: every string over these characters up to MaxVersionLen,
\* and the versions the documentation and the tests name.
VersionChars == {"2", "3", ".", "8"}

Versions ==
  SeqUpTo(VersionChars, MaxVersionLen) \cup
  {<<"3",".","0">>, <<"3",".","5">>, <<"1",".","0">>, <<"2",".","6">>, <<"2",".","8",".","1">>, <<"3",".","5",".","1">>}

\* Settings that parse, and settings with one bad value each.
VersionSpecKafkaConfigs ==
  {EmptyKafkaConfig,
   ExampleKafkaConfig,
   [EmptyKafkaConfig EXCEPT !.compression_type = <<"g","z","i","p">>],
   [EmptyKafkaConfig EXCEPT !.log_retention_ms = <<"1","x">>],
   [ExampleKafkaConfig EXCEPT
      !.sasl_enabled_mechanisms = <<<<"S","A","S","L","_","M","E","C","H","A","N","I","S","M","_","S","C","R","A","M","_","S","H","A","_","2","5","6">>, <<"P","L","A","I","N">>>>]}

----------------------------------------------------------------------------
(* expandKafkaConfigSpec on every version.                                 *)

InitConfigSpec ==
  /\ d \in {TreeWithConfig(c, v, kc) :
               c \in {ExampleConfig, FullConfig},
               v \in Versions,
               kc \in VersionSpecKafkaConfigs}
  /\ call = "idle"
  /\ args = <<>>
  /\ ret = [val |-> Nil, err |-> NoErr]

CallExpandKafkaConfigSpec ==
  /\ call = "idle"
  /\ call' = "expandKafkaConfigSpec"
  /\ ret' = expandKafkaConfigSpec(d)
  /\ UNCHANGED <<d, args>>

NextConfigSpec == CallExpandKafkaConfigSpec

SpecConfigSpec == InitConfigSpec /\ [][NextConfigSpec]_vars

\* The oneof member of the returned ConfigSpec, "" when none is set.
ReturnedShape ==
  IF ret.val = Nil \/ ret.val[1].Kafka.KafkaConfig = Nil THEN ""
  ELSE ret.val[1].Kafka.KafkaConfig[1].oneof

\* C1: the version string alone selects the shape: with a version that
\* starts with "3" the call ends as expandKafkaConfig3x does on the tree (the
\* 3.x config on success, the error of the settings otherwise), and with the
\* version "2.8" it ends as expandKafkaConfig2_8 does, with the 2.8 config.
C1_VersionSelectsShape ==
  call = "expandKafkaConfigSpec" =>
    LET version  == d.config.version
        settings == parseKafkaConfig(d)
    IN  /\ HasPrefix(version, <<"3">>) =>
             IF settings.err = NoErr
             THEN ret.err = NoErr /\ ReturnedShape = "KafkaConfig_3"
             ELSE ret.err = settings.err /\ ret.val = Nil
        /\ version = <<"2",".","8">> =>
             IF settings.err = NoErr
             THEN ret.err = NoErr /\ ReturnedShape = "KafkaConfig_2_8"
             ELSE ret.err = settings.err /\ ret.val = Nil

C1_Witness ==
  /\ call = "expandKafkaConfigSpec"
  /\ d.config.version = <<"3",".","5">>
  /\ ret.err = NoErr
  /\ ReturnedShape = "KafkaConfig_3"

\* C2: a ConfigSpec returned without error carries exactly one of the two
\* Kafka config shapes, the one the version selects, and the version itself.
C2_ExactlyOneShape ==
  (call = "expandKafkaConfigSpec" /\ ret.err = NoErr) =>
    /\ ret.val # Nil
    /\ ReturnedShape \in {"KafkaConfig_2_8", "KafkaConfig_3"}
    /\ ReturnedShape = "KafkaConfig_3" <=> HasPrefix(d.config.version, <<"3">>)
    /\ ReturnedShape = "KafkaConfig_2_8" <=> d.config.version = <<"2",".","8">>
    /\ ret.val[1].Kafka.KafkaConfig[1].cfg.type =
          (IF ReturnedShape = "KafkaConfig_3" THEN "KafkaConfig3" ELSE "KafkaConfig2_8")
    /\ ret.val[1].Version = d.config.version

C2_Witness ==
  /\ call = "expandKafkaConfigSpec"
  /\ d.config.version = <<"2",".","8">>
  /\ ret.err = NoErr
  /\ ReturnedShape = "KafkaConfig_2_8"
  /\ ret.val[1].Version = <<"2",".","8">>

MustSpecifyVersion == "you must specify version of Kafka"
VersionNotSupported == "this version of Kafka not supported by Terraform provider"

\* C3: an empty version gives the 'must specify version' error, every other
\* version that neither starts with "3" nor equals "2.8" gives the 'not
\* supported' error, and no ConfigSpec is returned in either case.
C3_VersionErrors ==
  call = "expandKafkaConfigSpec" =>
    LET version == d.config.version
    IN  /\ version = <<>> =>
             /\ ret.val = Nil
             /\ ret.err # NoErr
             /\ ret.err[1].fmt = MustSpecifyVersion
        /\ (version # <<>> /\ ~HasPrefix(version, <<"3">>) /\ version # <<"2",".","8">>) =>
             /\ ret.val = Nil
             /\ ret.err # NoErr
             /\ ret.err[1].fmt = VersionNotSupported
             /\ ret.err[1].fmt # MustSpecifyVersion

C3_Witness ==
  /\ call = "expandKafkaConfigSpec"
  /\ d.config.version = <<"2",".","8",".","1">>
  /\ ret.val = Nil
  /\ ret.err # NoErr
  /\ ret.err[1].fmt = VersionNotSupported

----------------------------------------------------------------------------
(* topic_config.                                                           *)

\* The integer settings of topic_config in the order parseKafkaTopicConfig
\* reads them: the field of TopicConfig and the attribute under the prefix.
TopicIntParams ==
  << <<"DeleteRetentionMs", "delete_retention_ms">>,
     <<"FileDeleteDelayMs", "file_delete_delay_ms">>,
     <<"FlushMessages", "flush_messages">>,
     <<"FlushMs", "flush_ms">>,
     <<"MinCompactionLagMs", "min_compaction_lag_ms">>,
     <<"RetentionBytes", "retention_bytes">>,
     <<"RetentionMs", "retention_ms">>,
     <<"MaxMessageBytes", "max_message_bytes">>,
     <<"MinInsyncReplicas", "min_insync_replicas">>,
     <<"SegmentBytes", "segment_bytes">> >>

TopicIntParamNames == {TopicIntParams[i][2] : i \in 1..Len(TopicIntParams)}

\* paramPath is the pair of the prefix (the topic_config block of the tree,
\* named by the index of its topic) and the attribute.
parseIntTopicConfigParam(dd, paramPath, retErr) ==
  LET str == dd.topic[paramPath[1]].topic_config[paramPath[2]]
  IN  IF str = <<>> THEN [val |-> Nil, retErr |-> retErr]
      ELSE LET p == ParseInt(str)
           IN  IF p.err # NoErr
               THEN [val |-> Nil,
                     retErr |-> IF retErr # NoErr THEN p.err ELSE retErr]
               ELSE [val |-> Some(p.val), retErr |-> retErr]

\* The first n integer settings of parseKafkaTopicConfig, read in the order
\* of the calls, each call handed retErr as the call before it left it.
RECURSIVE TopicIntsAfter(_, _, _)
TopicIntsAfter(dd, topicConfigPrefix, n) ==
  IF n = 0 THEN [vals |-> <<>>, retErr |-> NoErr]
  ELSE Only({IntParamRead(prev,
                          parseIntTopicConfigParam(
                             dd, <<topicConfigPrefix, TopicIntParams[n][2]>>,
                             prev.retErr)) :
               prev \in {TopicIntsAfter(dd, topicConfigPrefix, n - 1)}})

parseKafkaTopicConfig(dd, topicConfigPrefix) ==
  LET tc      == dd.topic[topicConfigPrefix].topic_config
      cleanup == parseKafkaTopicCleanupPolicy(tc.cleanup_policy)
      comp    == parseKafkaCompression(tc.compression_type)
      res(ints) ==
        [CleanupPolicy |-> tc.cleanup_policy,
         CompressionType |-> IF tc.compression_type # <<>> THEN comp.val ELSE 0,
         DeleteRetentionMs |-> ints[1],
         FileDeleteDelayMs |-> ints[2],
         FlushMessages |-> ints[3],
         FlushMs |-> ints[4],
         MinCompactionLagMs |-> ints[5],
         RetentionBytes |-> ints[6],
         RetentionMs |-> ints[7],
         MaxMessageBytes |-> ints[8],
         MinInsyncReplicas |-> ints[9],
         SegmentBytes |-> ints[10],
         Preallocate |-> IF tc.preallocate THEN Some(TRUE) ELSE Nil]
  IN  IF tc.cleanup_policy # <<>> /\ cleanup.err # NoErr
      THEN [val |-> Nil, err |-> cleanup.err]
      ELSE IF tc.compression_type # <<>> /\ comp.err # NoErr
      THEN [val |-> Nil, err |-> comp.err]
      ELSE Only({IF read.retErr # NoErr
                 THEN [val |-> Nil, err |-> read.retErr]
                 ELSE [val |-> Some(res(read.vals)), err |-> NoErr] :
                   read \in {TopicIntsAfter(dd, topicConfigPrefix,
                                            Len(TopicIntParams))}})

EmptyTopicConfig ==
  [p \in TopicIntParamNames |-> <<>>] @@
  [cleanup_policy |-> <<>>, compression_type |-> <<>>, preallocate |-> FALSE]

TopicBlock(name, tc) ==
  [name |-> name, partitions |-> 1, replication_factor |-> 1, topic_config |-> tc]

----------------------------------------------------------------------------
(* The parsers of the integer settings on well-formed and malformed        *)
(* strings.                                                                *)

MaxIntStrLen == 2

IntChars == {"0", "7", "-", "x"}

\* Every short string over IntChars, and strings at and beyond the ends of
\* the 64-bit range.
IntStrings ==
  SeqUpTo(IntChars, MaxIntStrLen) \cup
  {<<"1","0","2","4">>, <<"+","5">>, <<"1",".","5">>, <<"9","2","2","3","3","7","2","0","3","6","8","5","4","7","7","5","8","0","7">>, <<"9","2","2","3","3","7","2","0","3","6","8","5","4","7","7","5","8","0","8">>,
   <<"-","9","2","2","3","3","7","2","0","3","6","8","5","4","7","7","5","8","0","8">>, <<"-","9","2","2","3","3","7","2","0","3","6","8","5","4","7","7","5","8","0","9">>, <<"9","9","9","9","9","9","9","9","9","9","9","9","9","9","9","9","9","9","9","9">>}

\* What a second setting of the same block holds: a number, a string that is
\* no number, a number out of range.
SecondIntStrings == {<<"5">>, <<"1","x">>, <<"9","2","2","3","3","7","2","0","3","6","8","5","4","7","7","5","8","0","8">>}

\* Settings with one integer attribute drawn from IntStrings and at most one
\* other integer attribute drawn from SecondIntStrings.
IntSettings(empty, names) ==
  {[empty EXCEPT ![p] = s] : p \in names, s \in IntStrings} \cup
  {[empty EXCEPT ![p] = s, ![q] = t] :
      p \in names, s \in IntStrings \ {<<>>}, q \in names, t \in SecondIntStrings}

InitParse ==
  /\ \/ \E kc \in IntSettings(EmptyKafkaConfig, KafkaIntParamNames) :
          /\ d = TreeWithConfig(ExampleConfig, <<"3",".","5">>, kc)
          /\ args = <<>>
     \/ \E tc \in IntSettings(EmptyTopicConfig, TopicIntParamNames) :
          /\ d = [EmptyTree EXCEPT !.topic = <<TopicBlock(<<"i","n","p","u","t">>, tc)>>]
          /\ args = <<1>>
  /\ call = "idle"
  /\ ret = [val |-> Nil, err |-> NoErr]

CallParseKafkaConfig ==
  /\ call = "idle"
  /\ args = <<>>
  /\ call' = "parseKafkaConfig"
  /\ ret' = parseKafkaConfig(d)
  /\ UNCHANGED <<d, args>>

CallParseKafkaTopicConfig ==
  /\ call = "idle"
  /\ args # <<>>
  /\ call' = "parseKafkaTopicConfig"
  /\ ret' = parseKafkaTopicConfig(d, args[1])
  /\ UNCHANGED <<d, args>>

NextParse == CallParseKafkaConfig \/ CallParseKafkaTopicConfig

SpecParse == InitParse /\ [][NextParse]_vars

\* The integer attributes of the block the call read that hold a string
\* which is not a base-10 signed 64-bit integer.
MalformedIntParams ==
  IF call = "parseKafkaConfig"
  THEN {p \in KafkaIntParamNames :
          kafkaConfigPath(d)[p] # <<>> /\ ParseInt(kafkaConfigPath(d)[p]).err # NoErr}
  ELSE {p \in TopicIntParamNames :
          /\ d.topic[args[1]].topic_config[p] # <<>>
          /\ ParseInt(d.topic[args[1]].topic_config[p]).err # NoErr}

\* C4: when an integer attribute that is present holds a string that does
\* not parse as a base-10 signed 64-bit integer, parseKafkaConfig and
\* parseKafkaTopicConfig return an error and no config.
C4_MalformedIntegerIsAnError ==
  (call \in {"parseKafkaConfig", "parseKafkaTopicConfig"} /\ MalformedIntParams # {}) =>
     ret.err # NoErr /\ ret.val = Nil

----------------------------------------------------------------------------
(* The enumeration parsers on the names of every table and on strings that *)
(* are in no table.                                                        *)

EnumTokens ==
  DOMAIN Cluster_Environment_value \cup
  DOMAIN CompressionType_value \cup
  DOMAIN SaslMechanism_value \cup
  DOMAIN Permission_AccessRole_value \cup
  DOMAIN Topic_CleanupPolicy_value \cup
  {<<>>, <<"p","r","o","d","u","c","t","i","o","n">>, <<"P","r","o","d","u","c","t","i","o","n">>, <<"g","z","i","p">>, <<"a","c","c","e","s","s","_","r","o","l","e","_","a","d","m","i","n">>,
   <<"C","L","E","A","N","U","P","_","P","O","L","I","C","Y","_","d","e","l","e","t","e">>, <<"U","N","S","P","E","C","I","F","I","E","D">>, <<"0">>, <<"1">>}

InitEnum ==
  /\ d = EmptyTree
  /\ call = "idle"
  /\ args \in {<<e>> : e \in EnumTokens}
  /\ ret = [val |-> 0, err |-> NoErr]

CallParseKafkaEnv ==
  /\ call = "idle"
  /\ call' = "parseKafkaEnv"
  /\ ret' = parseKafkaEnv(args[1])
  /\ UNCHANGED <<d, args>>

CallParseKafkaCompression ==
  /\ call = "idle"
  /\ call' = "parseKafkaCompression"
  /\ ret' = parseKafkaCompression(args[1])
  /\ UNCHANGED <<d, args>>

CallParseKafkaSaslMechanism ==
  /\ call = "idle"
  /\ call' = "parseKafkaSaslMechanism"
  /\ ret' = parseKafkaSaslMechanism(args[1])
  /\ UNCHANGED <<d, args>>

CallParseKafkaPermissionRole ==
  /\ call = "idle"
  /\ call' = "parseKafkaPermissionRole"
  /\ ret' = parseKafkaPermissionRole(args[1])
  /\ UNCHANGED <<d, args>>

CallParseKafkaTopicCleanupPolicy ==
  /\ call = "idle"
  /\ call' = "parseKafkaTopicCleanupPolicy"
  /\ ret' = parseKafkaTopicCleanupPolicy(args[1])
  /\ UNCHANGED <<d, args>>

NextEnum ==
  \/ CallParseKafkaEnv
  \/ CallParseKafkaCompression
  \/ CallParseKafkaSaslMechanism
  \/ CallParseKafkaPermissionRole
  \/ CallParseKafkaTopicCleanupPolicy

SpecEnum == InitEnum /\ [][NextEnum]_vars

EnumParsers ==
  {"parseKafkaEnv", "parseKafkaCompression", "parseKafkaSaslMechanism",
   "parseKafkaPermissionRole", "parseKafkaTopicCleanupPolicy"}

\* C5: no enumeration parser returns the zero (unspecified) ordinal of its
\* enumeration with a nil error.
C5_UnspecifiedIsRejected ==
  call \in EnumParsers => ~(ret.val = 0 /\ ret.err = NoErr)

----------------------------------------------------------------------------
(* kafkaUsersDiff.                                                         *)

\* The sequences that hold every element of the set S once: the orders in
\* which a range over a Go map can visit its keys.
Orderings(S) == {s \in [1..Cardinality(S) -> S] : Range(s) = S}

UserNamesOf(users) == {users[i].Name : i \in 1..Len(users)}

\* A diff that matches a target user with a current user only when the
\* permissions agree too.
UsersToAddMatchingPermissions(currUsers, targetUsers) ==
  LET absent(user) ==
        \A i \in 1..Len(currUsers) :
           ~(currUsers[i].Name = user.Name /\ currUsers[i].Permissions = user.Permissions)
  IN  SelectSeq(targetUsers, absent)

\* A diff that puts each new user in front of the list.
RECURSIVE UsersToAddPrepending(_, _)
UsersToAddPrepending(currUsers, targetUsers) ==
  IF Len(targetUsers) = 0 THEN <<>>
  ELSE UsersToAddPrepending(currUsers, Tail(targetUsers)) \o
       (IF targetUsers[1].Name \in UserNamesOf(currUsers) THEN <<>>
        ELSE <<targetUsers[1]>>)

\* A diff that adds every desired user, those with a current name too.
UsersToAddAll(currUsers, targetUsers) == targetUsers

\* toAdd when kafkaUsersDiff returns: m holds the names of the current
\* users, and a target user whose name is not in m is appended.
UsersToAdd(currUsers, targetUsers) ==
  LET m == UserNamesOf(currUsers)
      absent(user) == user.Name \notin m
  IN  SelectSeq(targetUsers, absent)

\* A diff that never takes a name out of toDelete.
UsersToDeleteKeepingAll(currUsers, targetUsers) == UserNamesOf(currUsers)

\* The keys of toDelete after both loops: every current name is put in, and
\* the name of every target user is taken out.
UsersToDelete(currUsers, targetUsers) ==
  UserNamesOf(currUsers) \ UserNamesOf(targetUsers)

\* The possible returns: toDel lists the keys of toDelete in the order the
\* map yields them.
kafkaUsersDiff(currUsers, targetUsers) ==
  {[toDel |-> o, toAdd |-> UsersToAdd(currUsers, targetUsers)] :
      o \in Orderings(UsersToDelete(currUsers, targetUsers))}

UserNames == {<<"a">>, <<"b">>, <<"c">>}

ExamplePermission ==
  [TopicName |-> <<"i","n","p","u","t">>, Role |-> 1, AllowHosts |-> <<<<"h","o","s","t","1">>, <<"h","o","s","t","2">>>>]

\* The users the API lists: with a name, without a password.
CurrentUsers == {[Name |-> n, Permissions |-> <<>>] : n \in UserNames}

\* The users the tree declares: two entries for each name, which differ in
\* password and permissions.
TargetUserSpecs ==
  {[Name |-> n, Password |-> <<"p">>, Permissions |-> <<>>] : n \in UserNames} \cup
  {[Name |-> n, Password |-> <<"q">>, Permissions |-> <<ExamplePermission>>] :
      n \in UserNames}

InitUsersDiff ==
  /\ d = EmptyTree
  /\ call = "idle"
  /\ args \in [currUsers : SeqUpTo(CurrentUsers, MaxUsers),
               targetUsers : SeqUpTo(TargetUserSpecs, MaxUsers)]
  /\ ret = [toDel |-> <<>>, toAdd |-> <<>>]

CallKafkaUsersDiff ==
  /\ call = "idle"
  /\ call' = "kafkaUsersDiff"
  /\ ret' \in kafkaUsersDiff(args.currUsers, args.targetUsers)
  /\ UNCHANGED <<d, args>>

NextUsersDiff == CallKafkaUsersDiff

SpecUsersDiff == InitUsersDiff /\ [][NextUsersDiff]_vars

\* C6: the delete list holds exactly the names that occur in current and
\* not in desired, each of them once.
C6_DeleteList ==
  call = "kafkaUsersDiff" =>
    LET gone == {n \in UserNames :
                   /\ \E i \in 1..Len(args.currUsers) : args.currUsers[i].Name = n
                   /\ \A j \in 1..Len(args.targetUsers) : args.targetUsers[j].Name # n}
    IN  /\ Range(ret.toDel) = gone
        /\ \A n \in gone :
              Cardinality({k \in 1..Len(ret.toDel) : ret.toDel[k] = n}) = 1

C6_Witness ==
  /\ call = "kafkaUsersDiff"
  /\ Len(args.currUsers) = 2
  /\ args.currUsers[1].Name = args.currUsers[2].Name
  /\ \A j \in 1..Len(args.targetUsers) :
        args.targetUsers[j].Name # args.currUsers[1].Name
  /\ ret.toDel = <<args.currUsers[1].Name>>

\* C7: the add list holds the desired entries whose name does not occur in
\* current, whole and in the order of desired, and nothing else.
C7_AddList ==
  call = "kafkaUsersDiff" =>
    LET new == {j \in 1..Len(args.targetUsers) :
                  \A i \in 1..Len(args.currUsers) :
                     args.currUsers[i].Name # args.targetUsers[j].Name}
    IN  /\ Len(ret.toAdd) = Cardinality(new)
        /\ \E f \in [1..Len(ret.toAdd) -> 1..Len(args.targetUsers)] :
              /\ {f[k] : k \in 1..Len(ret.toAdd)} = new
              /\ \A k, l \in 1..Len(ret.toAdd) : k < l => f[k] < f[l]
              /\ \A k \in 1..Len(ret.toAdd) : ret.toAdd[k] = args.targetUsers[f[k]]

C7_Witness ==
  /\ call = "kafkaUsersDiff"
  /\ UserNamesOf(args.currUsers) = {<<"a">>, <<"b">>}
  /\ Len(args.targetUsers) = 2
  /\ args.targetUsers[1].Name = <<"b">>
  /\ args.targetUsers[2] =
        [Name |-> <<"c">>, Password |-> <<"q">>, Permissions |-> <<ExamplePermission>>]
  /\ ret.toDel = <<<<"a">>>>
  /\ ret.toAdd = <<args.targetUsers[2]>>

\* Two desired lists that name the same users in the same order and agree
\* on every entry whose name is absent from current.
SameUpToMatchedEntries(currUsers, t1, t2) ==
  /\ Len(t1) = Len(t2)
  /\ \A j \in 1..Len(t1) :
        /\ t1[j].Name = t2[j].Name
        /\ t1[j].Name \notin UserNamesOf(currUsers) => t1[j] = t2[j]

----------------------------------------------------------------------------
(* Users and permissions of the tree.                                      *)
(* A schema.Set of the tree is the sequence of its elements in the order   *)
(* List() yields them; its elements are pairwise different.                *)

parseKafkaPermissionAllowHosts(allowHosts) ==
  LET result == parseSetToStringArray(allowHosts)
  IN  IF Len(result) = 0 THEN <<>> ELSE SortStrings(result)

AllowHostsSortedToStr(allowHosts) ==
  IF Len(allowHosts) = 0 THEN <<>> ELSE Join(SortStrings(allowHosts), <<",">>)

\* An order that compares the topic and the role and not the hosts.
PermissionLessNoHosts(permFirst, permSecond) ==
  \/ StrLess(permFirst.TopicName, permSecond.TopicName)
  \/ /\ permFirst.TopicName = permSecond.TopicName
     /\ StrLess(AccessRoleString(permFirst.Role), AccessRoleString(permSecond.Role))

\* The less function of sortPermissions.
PermissionLess(permFirst, permSecond) ==
  \/ StrLess(permFirst.TopicName, permSecond.TopicName)
  \/ /\ permFirst.TopicName = permSecond.TopicName
     /\ StrLess(AccessRoleString(permFirst.Role), AccessRoleString(permSecond.Role))
  \/ /\ permFirst.TopicName = permSecond.TopicName
     /\ AccessRoleString(permFirst.Role) = AccessRoleString(permSecond.Role)
     /\ StrLess(AllowHostsSortedToStr(permFirst.AllowHosts),
                AllowHostsSortedToStr(permSecond.AllowHosts))

\* The lists sortPermissions can leave in place of permissions.
sortPermissions(permissions) ==
  SortSliceResults(permissions,
     {pq \in Range(permissions) \X Range(permissions) : PermissionLess(pq[1], pq[2])})

\* The loop of expandKafkaPermissions over the blocks in the order given:
\* the permissions built before the first role that does not parse, and the
\* error of that role.
RECURSIVE PermissionsInOrder(_)
PermissionsInOrder(blocks) ==
  IF Len(blocks) = 0 THEN [val |-> <<>>, err |-> NoErr]
  ELSE LET m    == blocks[1]
           role == parseKafkaPermissionRole(m.role)
           rest == PermissionsInOrder(Tail(blocks))
       IN  IF role.err # NoErr THEN [val |-> <<>>, err |-> role.err]
           ELSE IF rest.err # NoErr THEN rest
           ELSE [val |-> <<[TopicName |-> m.topic_name,
                            Role |-> role.val,
                            AllowHosts |-> parseKafkaPermissionAllowHosts(m.allow_hosts)]>>
                         \o rest.val,
                 err |-> NoErr]

\* The possible returns of expandKafkaPermissions(ps).
expandKafkaPermissions(ps) ==
  LET result == PermissionsInOrder(ps)
  IN  IF result.err # NoErr THEN {[val |-> Nil, err |-> result.err]}
      ELSE {[val |-> sorted, err |-> NoErr] : sorted \in sortPermissions(result.val)}

\* The possible returns of expandKafkaUser(u).
expandKafkaUser(u) ==
  {IF permissions.err # NoErr THEN [val |-> Nil, err |-> permissions.err]
   ELSE [val |-> Some([Name |-> u.name,
                       Password |-> u.password,
                       Permissions |-> permissions.val]),
         err |-> NoErr] :
     permissions \in expandKafkaPermissions(u.permission)}

\* The loop of expandKafkaUsers over the users in the order given: the
\* possible lists before the sort, or the error of the first user that has
\* one.
RECURSIVE UsersInOrder(_)
UsersInOrder(users) ==
  IF Len(users) = 0 THEN {[val |-> <<>>, err |-> NoErr]}
  ELSE {IF user.err # NoErr THEN [val |-> <<>>, err |-> user.err]
        ELSE IF rest.err # NoErr THEN rest
        ELSE [val |-> user.val \o rest.val, err |-> NoErr] :
          user \in expandKafkaUser(users[1]), rest \in UsersInOrder(Tail(users))}

\* The less function of the sort in expandKafkaUsers.
UserLess(a, b) == StrLess(a.Name, b.Name)

\* The possible returns of expandKafkaUsers(d).
expandKafkaUsers(dd) ==
  UNION {IF result.err # NoErr THEN {[val |-> Nil, err |-> result.err]}
         ELSE {[val |-> sorted, err |-> NoErr] :
                  sorted \in SortSliceResults(result.val,
                     {ab \in Range(result.val) \X Range(result.val) :
                         UserLess(ab[1], ab[2])})} :
           result \in UsersInOrder(dd.user)}

----------------------------------------------------------------------------
(* expandKafkaPermissions on every enumeration of small permission sets.   *)

HostNames == {<<"h","1">>, <<"h","2">>}

\* The sequences over S without a repeated element, up to length n.
EnumerationsUpTo(S, n) ==
  {s \in SeqUpTo(S, n) : \A i, j \in 1..Len(s) : i # j => s[i] # s[j]}

PermissionBlocks ==
  [topic_name : {<<"i","n">>, <<"o","u","t">>},
   role : {<<"A","C","C","E","S","S","_","R","O","L","E","_","P","R","O","D","U","C","E","R">>, <<"A","C","C","E","S","S","_","R","O","L","E","_","C","O","N","S","U","M","E","R">>, <<"r","e","a","d","e","r">>},
   allow_hosts : EnumerationsUpTo(HostNames, Cardinality(HostNames))]

\* What makes two permission blocks the same element of the set.
PermissionIdentity(p) == <<p.topic_name, p.role, Range(p.allow_hosts)>>

PermissionSets ==
  {ps \in SeqUpTo(PermissionBlocks, MaxPermissions) :
      \A i, j \in 1..Len(ps) :
         i # j => PermissionIdentity(ps[i]) # PermissionIdentity(ps[j])}

InitPermissions ==
  /\ d = EmptyTree
  /\ call = "idle"
  /\ args \in {<<ps>> : ps \in PermissionSets}
  /\ ret = [val |-> Nil, err |-> NoErr]

CallExpandKafkaPermissions ==
  /\ call = "idle"
  /\ call' = "expandKafkaPermissions"
  /\ ret' \in expandKafkaPermissions(args[1])
  /\ UNCHANGED <<d, args>>

NextPermissions == CallExpandKafkaPermissions

SpecPermissions == InitPermissions /\ [][NextPermissions]_vars

\* The tuple a permission is ordered by.
PermissionKey(p) ==
  <<p.TopicName, AccessRoleString(p.Role), Join(p.AllowHosts, <<",">>)>>

\* The lexicographic order on triples of strings.
KeyLess(k1, k2) ==
  \/ StrLess(k1[1], k2[1])
  \/ k1[1] = k2[1] /\ StrLess(k1[2], k2[2])
  \/ k1[1] = k2[1] /\ k1[2] = k2[2] /\ StrLess(k1[3], k2[3])

Ascending(s) == \A i \in 1..Len(s) : \A j \in (i + 1)..Len(s) : StrLess(s[i], s[j])

\* The permission lists that hold the blocks of ps in the same places, the
\* hosts of each block in any order.
RECURSIVE HostReorderings(_)
HostReorderings(ps) ==
  IF Len(ps) = 0 THEN {<<>>}
  ELSE {<<[ps[1] EXCEPT !.allow_hosts = hs]>> \o rest :
           hs \in Rearrangements(ps[1].allow_hosts),
           rest \in HostReorderings(Tail(ps))}

\* Every enumeration of the set of blocks ps: the blocks in any order, the
\* hosts of each block in any order.
PermissionEnumerations(ps) ==
  UNION {Rearrangements(qs) : qs \in HostReorderings(ps)}

\* C9: on valid blocks expandKafkaPermissions returns one permission for
\* each block, each with its allow_hosts ascending, the list ascending by
\* (topic_name, role name, allow_hosts joined with commas); every
\* enumeration of the same set of blocks returns this same list.
C9_PermissionsOrderIndependent ==
  (call = "expandKafkaPermissions" /\ ret.err = NoErr) =>
    /\ Len(ret.val) = Len(args[1])
    /\ {<<ret.val[i].TopicName, AccessRoleString(ret.val[i].Role),
          Range(ret.val[i].AllowHosts)>> : i \in 1..Len(ret.val)} =
       {PermissionIdentity(args[1][i]) : i \in 1..Len(args[1])}
    /\ \A i \in 1..Len(ret.val) : Ascending(ret.val[i].AllowHosts)
    /\ \A i \in 1..Len(ret.val) : \A j \in (i + 1)..Len(ret.val) :
          KeyLess(PermissionKey(ret.val[i]), PermissionKey(ret.val[j]))
    /\ \A qs \in PermissionEnumerations(args[1]) :
          expandKafkaPermissions(qs) = {ret}

C9_Witness ==
  /\ call = "expandKafkaPermissions"
  /\ ret.err = NoErr
  /\ Len(args[1]) = 2
  /\ args[1][1].topic_name = args[1][2].topic_name
  /\ args[1][1].role = args[1][2].role
  /\ args[1][1].allow_hosts = <<<<"h","2">>, <<"h","1">>>>
  /\ args[1][2].allow_hosts = <<<<"h","1">>>>
  /\ ret.val[1].AllowHosts = <<<<"h","1">>>>
  /\ ret.val[2].AllowHosts = <<<<"h","1">>, <<"h","2">>>>

----------------------------------------------------------------------------
(* expandKafkaUsers on every enumeration of small user sets.               *)

ProducerBlock ==
  [topic_name |-> <<"i","n","p","u","t">>, role |-> <<"A","C","C","E","S","S","_","R","O","L","E","_","P","R","O","D","U","C","E","R">>,
   allow_hosts |-> <<<<"h","o","s","t","2">>, <<"h","o","s","t","1">>>>]

ConsumerBlock ==
  [topic_name |-> <<"i","n","p","u","t">>, role |-> <<"A","C","C","E","S","S","_","R","O","L","E","_","C","O","N","S","U","M","E","R">>, allow_hosts |-> <<>>]

BadRoleBlock ==
  [topic_name |-> <<"o","u","t","p","u","t">>, role |-> <<"A","C","C","E","S","S","_","R","O","L","E","_","O","W","N","E","R">>, allow_hosts |-> <<>>]

\* A permission whose role is the reserved zero member of the enumeration.
UnspecifiedRoleBlock ==
  [topic_name |-> <<"o","u","t","p","u","t">>, role |-> <<"A","C","C","E","S","S","_","R","O","L","E","_","U","N","S","P","E","C","I","F","I","E","D">>,
   allow_hosts |-> <<>>]

UserBlocks ==
  [name : UserNames,
   password : {<<"p">>, <<"q">>},
   permission : {<<>>, <<ProducerBlock, ConsumerBlock>>,
                 <<ConsumerBlock, ProducerBlock>>, <<ConsumerBlock, BadRoleBlock>>,
                 <<UnspecifiedRoleBlock>>}]

\* What makes two user blocks the same element of the set.
UserIdentity(u) ==
  <<u.name, u.password, {PermissionIdentity(u.permission[i]) : i \in 1..Len(u.permission)}>>

UserSets ==
  {us \in SeqUpTo(UserBlocks, MaxUsers) :
      \A i, j \in 1..Len(us) : i # j => UserIdentity(us[i]) # UserIdentity(us[j])}

InitUsers ==
  /\ d \in {[EmptyTree EXCEPT !.user = us] : us \in UserSets}
  /\ call = "idle"
  /\ args = <<>>
  /\ ret = [val |-> Nil, err |-> NoErr]

CallExpandKafkaUsers ==
  /\ call = "idle"
  /\ call' = "expandKafkaUsers"
  /\ ret' \in expandKafkaUsers(d)
  /\ UNCHANGED <<d, args>>

NextUsers == CallExpandKafkaUsers

SpecUsers == InitUsers /\ [][NextUsers]_vars

\* The user lists that hold the users of us in the same places, the
\* permission blocks of each user enumerated in any way.
RECURSIVE PermissionReorderings(_)
PermissionReorderings(us) ==
  IF Len(us) = 0 THEN {<<>>}
  ELSE {<<[us[1] EXCEPT !.permission = ps]>> \o rest :
           ps \in PermissionEnumerations(us[1].permission),
           rest \in PermissionReorderings(Tail(us))}

\* Every enumeration of the set of user blocks us.
UserEnumerations(us) ==
  UNION {Rearrangements(qs) : qs \in PermissionReorderings(us)}

\* Some role of some permission is a token the role table does not hold.
HasUnknownRole(users) ==
  \E i \in 1..Len(users) : \E k \in 1..Len(users[i].permission) :
     users[i].permission[k].role \notin DOMAIN Permission_AccessRole_value

\* Some role of some permission is invalid input: a token the role table
\* does not hold, or the reserved zero member ACCESS_ROLE_UNSPECIFIED.
HasInvalidRole(users) ==
  \/ HasUnknownRole(users)
  \/ \E i \in 1..Len(users) : \E k \in 1..Len(users[i].permission) :
        Permission_AccessRole_value[users[i].permission[k].role] = 0

DistinctNames(users) ==
  \A i, j \in 1..Len(users) : i # j => users[i].name # users[j].name

\* The list expandKafkaUsers returns without error: one UserSpec for each
\* user block, with the name and password of the block, ascending by name,
\* and when the names are pairwise distinct every enumeration of the same
\* user set returns this same list.
ReturnsUsersSortedByName ==
  /\ ret.err = NoErr
  /\ Len(ret.val) = Len(d.user)
  /\ \E p \in Permutations(1..Len(d.user)) :
        \A i \in 1..Len(d.user) :
           /\ ret.val[i].Name = d.user[p[i]].name
           /\ ret.val[i].Password = d.user[p[i]].password
           /\ Len(ret.val[i].Permissions) = Len(d.user[p[i]].permission)
  /\ \A i \in 1..Len(ret.val) : \A j \in (i + 1)..Len(ret.val) :
        ~StrLess(ret.val[j].Name, ret.val[i].Name)
  /\ DistinctNames(d.user) =>
        \A qs \in UserEnumerations(d.user) :
           expandKafkaUsers([d EXCEPT !.user = qs]) = {ret}

\* C10: when a role of some permission of some user is invalid,
\* expandKafkaUsers returns an error and no list; otherwise it returns one
\* UserSpec for each user block, ascending by name, the same list for every
\* enumeration of a user set with pairwise distinct names.
C10_UsersSortedByName ==
  call = "expandKafkaUsers" =>
    IF HasInvalidRole(d.user)
    THEN ret.err # NoErr /\ ret.val = Nil
    ELSE ReturnsUsersSortedByName

\* The same with the roles the parser rejects in the place of the invalid
\* roles: the order of the list and the error of a role that is in no table.
UsersSortedByNameWhenRolesParse ==
  call = "expandKafkaUsers" =>
    IF HasUnknownRole(d.user)
    THEN ret.err # NoErr /\ ret.val = Nil
    ELSE ReturnsUsersSortedByName

\* Users out of name order are returned in name order.
UsersSortedWitness ==
  /\ call = "expandKafkaUsers"
  /\ ret.err = NoErr
  /\ Len(d.user) = 2
  /\ d.user[1].name = <<"b">>
  /\ d.user[2].name = <<"a">>
  /\ d.user[2].permission = <<ProducerBlock, ConsumerBlock>>
  /\ ret.val[1].Name = <<"a">>
  /\ ret.val[2].Name = <<"b">>

\* A user with a permission of the reserved role is returned in a list.
UnspecifiedRoleAccepted ==
  /\ call = "expandKafkaUsers"
  /\ d.user = <<[name |-> <<"a">>, password |-> <<"p">>,
                 permission |-> <<UnspecifiedRoleBlock>>]>>
  /\ ret.err = NoErr
  /\ Len(ret.val) = 1
----------------------------------------------------------------------------
(* flattenKafkaUsers and kafkaUsersPasswords.                              *)
(* A map[string]interface{} is a function on the keys that were set; a     *)
(* schema.Set is the set of the elements added to it.                      *)

\* The map of one permission: allow_hosts is set for a non-empty list only.
flattenKafkaUserPermission(perm) ==
  IF Len(perm.AllowHosts) > 0
  THEN [topic_name |-> perm.TopicName, role |-> AccessRoleString(perm.Role),
        allow_hosts |-> Range(perm.AllowHosts)]
  ELSE [topic_name |-> perm.TopicName, role |-> AccessRoleString(perm.Role)]

flattenKafkaUserPermissions(user) ==
  {flattenKafkaUserPermission(user.Permissions[i]) : i \in 1..Len(user.Permissions)}

\* A flattening that writes passwords[user.Name] with no test of the key:
\* a name that is no key gets the empty string.
flattenKafkaUsersAlwaysPassword(users, passwords) ==
  {[name |-> users[i].Name,
    permission |-> flattenKafkaUserPermissions(users[i]),
    password |-> IF users[i].Name \in DOMAIN passwords
                 THEN passwords[users[i].Name] ELSE <<>>] : i \in 1..Len(users)}

\* passwords is a function from the names that are keys of the map.
flattenKafkaUsers(users, passwords) ==
  {IF users[i].Name \in DOMAIN passwords
   THEN [name |-> users[i].Name,
         permission |-> flattenKafkaUserPermissions(users[i]),
         password |-> passwords[users[i].Name]]
   ELSE [name |-> users[i].Name,
         permission |-> flattenKafkaUserPermissions(users[i])] :
     i \in 1..Len(users)}

\* The map after the loop: a later spec of a name overwrites an earlier one.
RECURSIVE kafkaUsersPasswords(_)
kafkaUsersPasswords(users) ==
  IF Len(users) = 0 THEN [n \in {} |-> <<>>]
  ELSE (users[Len(users)].Name :> users[Len(users)].Password) @@
       kafkaUsersPasswords(SubSeq(users, 1, Len(users) - 1))

HostlessPermission == [TopicName |-> <<"e","v","e","n","t","s">>, Role |-> 2, AllowHosts |-> <<>>]

\* The users the API lists, with permissions and without a password.
ApiUsers ==
  {[Name |-> n, Permissions |-> ps] :
      n \in UserNames,
      ps \in {<<>>, <<ExamplePermission>>, <<HostlessPermission, ExamplePermission>>}}

InitFlattenUsers ==
  /\ d = EmptyTree
  /\ call = "idle"
  /\ args \in [users : SeqUpTo(ApiUsers, MaxUsers),
               targetUsers : SeqUpTo(TargetUserSpecs, MaxUsers)]
  /\ ret = <<>>

\* The read of the resource: the passwords of the declared users ...
CallKafkaUsersPasswords ==
  /\ call = "idle"
  /\ call' = "kafkaUsersPasswords"
  /\ ret' = kafkaUsersPasswords(args.targetUsers)
  /\ UNCHANGED <<d, args>>

\* ... are handed to the flattening of the users the API lists.
CallFlattenKafkaUsers ==
  /\ call = "kafkaUsersPasswords"
  /\ call' = "flattenKafkaUsers"
  /\ ret' = [passwords |-> ret, users |-> flattenKafkaUsers(args.users, ret)]
  /\ UNCHANGED <<d, args>>

NextFlattenUsers == CallKafkaUsersPasswords \/ CallFlattenKafkaUsers

SpecFlattenUsers == InitFlattenUsers /\ [][NextFlattenUsers]_vars

\* C11: a flattened user has the password passwords[name] when its name is
\* a key of the map and has no password key when it is not; every user of
\* the API is flattened; and with the map of kafkaUsersPasswords a user of
\* the API whose name is declared has the password of the (last) declared
\* spec of that name.
C11_PasswordsFromMap ==
  call = "flattenKafkaUsers" =>
    /\ \A u \in ret.users :
          IF u.name \in DOMAIN ret.passwords
          THEN "password" \in DOMAIN u /\ u.password = ret.passwords[u.name]
          ELSE "password" \notin DOMAIN u
    /\ \A i \in 1..Len(args.users) :
          \E u \in ret.users :
             /\ u.name = args.users[i].Name
             /\ Cardinality(u.permission) = Len(args.users[i].Permissions)
    /\ \A i \in 1..Len(args.users) : \A j \in 1..Len(args.targetUsers) :
          /\ args.targetUsers[j].Name = args.users[i].Name
          /\ \A k \in (j + 1)..Len(args.targetUsers) :
                args.targetUsers[k].Name # args.users[i].Name
          => \A u \in ret.users :
                u.name = args.users[i].Name =>
                   "password" \in DOMAIN u /\ u.password = args.targetUsers[j].Password

\* A declared user gets its password back, an undeclared one gets none.
C11_Witness ==
  /\ call = "flattenKafkaUsers"
  /\ Len(args.users) = 2
  /\ args.users[1].Name = <<"a">>
  /\ args.users[2].Name = <<"b">>
  /\ args.targetUsers = <<[Name |-> <<"a">>, Password |-> <<"q">>,
                           Permissions |-> <<ExamplePermission>>]>>
  /\ \E u \in ret.users : u.name = <<"a">> /\ u.password = <<"q">>
  /\ \E u \in ret.users : u.name = <<"b">> /\ "password" \notin DOMAIN u

----------------------------------------------------------------------------
(* Optional integer settings: absent, and present with "0".                *)

\* The pairs <<field, attribute>> of the block the call read, and the block.
IntParamsRead ==
  IF call = "parseKafkaConfig" THEN KafkaIntParams ELSE TopicIntParams

IntBlockRead ==
  IF call = "parseKafkaConfig" THEN kafkaConfigPath(d)
  ELSE d.topic[args[1]].topic_config

\* C12: in the settings parseKafkaConfig and parseKafkaTopicConfig return,
\* an optional integer field whose attribute is absent (the empty string)
\* is nil, and a field whose attribute is the string "0" is a wrapper of 0.
C12_AbsentIsNilZeroIsZero ==
  (call \in {"parseKafkaConfig", "parseKafkaTopicConfig"} /\ ret.err = NoErr) =>
     \A i \in 1..Len(IntParamsRead) :
        LET field == IntParamsRead[i][1]
            attr  == IntBlockRead[IntParamsRead[i][2]]
        IN  /\ attr = <<>> => ret.val[1][field] = Nil
            /\ attr = <<"0">> => /\ ret.val[1][field] # Nil
                              /\ ret.val[1][field][1] = [neg |-> FALSE, mag |-> <<"0">>]

\* kafka_config with num_partitions = "0" and the other settings absent.
C12_Witness ==
  /\ call = "parseKafkaConfig"
  /\ kafkaConfigPath(d).num_partitions = <<"0">>
  /\ kafkaConfigPath(d).log_retention_ms = <<>>
  /\ ret.err = NoErr
  /\ ret.val[1].NumPartitions = Some(Int64Zero)
  /\ ret.val[1].LogRetentionMs = Nil

\* topic_config with flush_ms = "0" and the other settings absent.
C12_TopicWitness ==
  /\ call = "parseKafkaTopicConfig"
  /\ d.topic[1].topic_config.flush_ms = <<"0">>
  /\ ret.err = NoErr
  /\ ret.val[1].FlushMs = Some(Int64Zero)
  /\ ret.val[1].SegmentBytes = Nil

----------------------------------------------------------------------------
(* flattenKafkaConfigSettings and flattenKafkaTopicConfig.                 *)

\* strconv.FormatInt(i, 10)
FormatInt(i) == IF i.neg THEN <<"-">> \o i.mag ELSE i.mag

\* CompressionType.String() and SaslMechanism.String()
CompressionTypeString(ct) ==
  CHOOSE n \in DOMAIN CompressionType_value : CompressionType_value[n] = ct

SaslMechanismString(mechanism) ==
  CHOOSE n \in DOMAIN SaslMechanism_value : SaslMechanism_value[n] = mechanism

\* A map[string]interface{} without keys, and one with the key k.
EmptyMap == [k \in {} |-> <<>>]

\* The field of the pair of params whose attribute is attr.
FieldOf(params, attr) ==
  params[CHOOSE k \in 1..Len(params) : params[k][2] = attr][1]

\* A flattening of the integer fields that takes a wrapper of 0 for a field
\* that is not set.
flattenIntFieldsSkippingZero(settings, params) ==
  [attr \in {params[k][2] : k \in {k \in 1..Len(params) :
                                     /\ settings[params[k][1]] # Nil
                                     /\ settings[params[k][1]][1] # Int64Zero}} |->
     FormatInt(settings[FieldOf(params, attr)][1])]

\* The keys of the integer fields: one "if Get...() != nil" for each pair
\* of params, the value written by strconv.FormatInt.
flattenIntFields(settings, params) ==
  [attr \in {params[k][2] : k \in {k \in 1..Len(params) :
                                     settings[params[k][1]] # Nil}} |->
     FormatInt(settings[FieldOf(params, attr)][1])]

convertSaslEnabledMechanismsToStrings(mechanisms) ==
  [i \in 1..Len(mechanisms) |-> SaslMechanismString(mechanisms[i])]

\* kafkaConfig is a KafkaConfig2_8 or a KafkaConfig3; the getters of
\* KafkaConfigSettings read its fields.  A slice is nil when it is empty.
flattenKafkaConfigSettings(kafkaConfig) ==
  [val |->
     (IF kafkaConfig.settings.CompressionType # 0
      THEN [compression_type |->
              CompressionTypeString(kafkaConfig.settings.CompressionType)]
      ELSE EmptyMap) @@
     flattenIntFields(kafkaConfig.settings, KafkaIntParams) @@
     (IF kafkaConfig.settings.AutoCreateTopicsEnable # Nil
      THEN [auto_create_topics_enable |->
              kafkaConfig.settings.AutoCreateTopicsEnable[1]]
      ELSE EmptyMap) @@
     (IF kafkaConfig.settings.SslCipherSuites # <<>>
      THEN [ssl_cipher_suites |-> kafkaConfig.settings.SslCipherSuites]
      ELSE EmptyMap) @@
     (IF kafkaConfig.settings.SaslEnabledMechanisms # <<>>
      THEN [sasl_enabled_mechanisms |->
              convertSaslEnabledMechanismsToStrings(
                 kafkaConfig.settings.SaslEnabledMechanisms)]
      ELSE EmptyMap),
   err |-> NoErr]

flattenKafkaConfig2_8Settings(r) == flattenKafkaConfigSettings(r)

flattenKafkaConfig3Settings(r) == flattenKafkaConfigSettings(r)

\* topicConfig is a TopicConfig2_8 or a TopicConfig3 behind TopicConfigSpec.
flattenKafkaTopicConfig(topicConfig) ==
  (IF topicConfig.settings.CompressionType # 0
   THEN [compression_type |->
           CompressionTypeString(topicConfig.settings.CompressionType)]
   ELSE EmptyMap) @@
  flattenIntFields(topicConfig.settings, TopicIntParams) @@
  (IF topicConfig.settings.Preallocate # Nil
   THEN [preallocate |-> topicConfig.settings.Preallocate[1]]
   ELSE EmptyMap)

\* The settings of an API object with no field set.
UnsetKafkaSettings ==
  [k \in {KafkaIntParams[i][1] : i \in 1..Len(KafkaIntParams)} |-> Nil] @@
  [CompressionType |-> 0, LogPreallocate |-> Nil, AutoCreateTopicsEnable |-> Nil,
   SslCipherSuites |-> <<>>, SaslEnabledMechanisms |-> <<>>]

UnsetTopicSettings ==
  [k \in {TopicIntParams[i][1] : i \in 1..Len(TopicIntParams)} |-> Nil] @@
  [CleanupPolicy |-> 0, CompressionType |-> 0, Preallocate |-> Nil]

\* 64-bit integers an API object can hold: 0, small ones of both signs and
\* the two ends of the range.
Int64Values ==
  {Int64Zero,
   [neg |-> FALSE, mag |-> <<"5">>],
   [neg |-> TRUE, mag |-> <<"7">>],
   [neg |-> FALSE, mag |-> <<"1","0","2","4">>],
   [neg |-> FALSE, mag |-> MaxInt64Mag],
   [neg |-> TRUE, mag |-> MinInt64Mag]}

\* Settings with one integer field set or unset, at most one other integer
\* field set, and any compression type.
ApiSettings(unset, params) ==
  {[unset EXCEPT ![params[i][1]] = v, ![params[j][1]] = w, !.CompressionType = ct] :
      i \in 1..Len(params), v \in {Nil} \cup {Some(x) : x \in Int64Values},
      j \in 1..Len(params), w \in {Nil, Some(Int64Zero)},
      ct \in {CompressionType_value[n] : n \in DOMAIN CompressionType_value}}

InitFlattenSettings ==
  /\ d = EmptyTree
  /\ call = "idle"
  /\ \/ args \in [type : {"KafkaConfig2_8", "KafkaConfig3"},
                  settings : ApiSettings(UnsetKafkaSettings, KafkaIntParams) \cup
                             {[UnsetKafkaSettings EXCEPT
                                 !.AutoCreateTopicsEnable = Some(TRUE),
                                 !.SslCipherSuites = <<<<"T","L","S","_","A">>, <<"T","L","S","_","B">>>>,
                                 !.SaslEnabledMechanisms = <<2, 1>>]}]
     \/ args \in [type : {"TopicConfig2_8", "TopicConfig3"},
                  settings : ApiSettings(UnsetTopicSettings, TopicIntParams) \cup
                             {[UnsetTopicSettings EXCEPT
                                 !.Preallocate = Some(FALSE)]}]
  /\ ret = [val |-> EmptyMap]

CallFlattenKafkaConfig2_8Settings ==
  /\ call = "idle"
  /\ args.type = "KafkaConfig2_8"
  /\ call' = "flattenKafkaConfigSettings"
  /\ ret' = flattenKafkaConfig2_8Settings(args)
  /\ UNCHANGED <<d, args>>

CallFlattenKafkaConfig3Settings ==
  /\ call = "idle"
  /\ args.type = "KafkaConfig3"
  /\ call' = "flattenKafkaConfigSettings"
  /\ ret' = flattenKafkaConfig3Settings(args)
  /\ UNCHANGED <<d, args>>

CallFlattenKafkaTopicConfig ==
  /\ call = "idle"
  /\ args.type \in {"TopicConfig2_8", "TopicConfig3"}
  /\ call' = "flattenKafkaTopicConfig"
  /\ ret' = [val |-> flattenKafkaTopicConfig(args)]
  /\ UNCHANGED <<d, args>>

NextFlattenSettings ==
  \/ CallFlattenKafkaConfig2_8Settings
  \/ CallFlattenKafkaConfig3Settings
  \/ CallFlattenKafkaTopicConfig

SpecFlattenSettings == InitFlattenSettings /\ [][NextFlattenSettings]_vars

\* The pairs <<field, attribute>> of the object the call flattened.
IntParamsFlattened ==
  IF call = "flattenKafkaConfigSettings" THEN KafkaIntParams ELSE TopicIntParams

\* s is the base-10 string of the 64-bit integer i: a sign for a negative
\* number only, digits without leading zeros, and the value of i.
IsDecimalOf(s, i) ==
  /\ ParseInt(s).err = NoErr
  /\ ParseInt(s).val = i
  /\ Len(s) = Len(i.mag) + (IF i.neg THEN 1 ELSE 0)
  /\ i = Int64Zero => s = <<"0">>

\* The other variant of the same field values.
OtherVariant(obj) ==
  [obj EXCEPT !.type = CASE obj.type = "KafkaConfig2_8" -> "KafkaConfig3"
                         [] obj.type = "KafkaConfig3" -> "KafkaConfig2_8"
                         [] obj.type = "TopicConfig2_8" -> "TopicConfig3"
                         [] obj.type = "TopicConfig3" -> "TopicConfig2_8"]

\* C13: the flattened map holds the key of an optional integer field
\* exactly when the field is set on the API object, with the base-10
\* string of its value (0 gives "0"); it holds compression_type exactly
\* when the compression type is not the unspecified member; and the other
\* variant of the same field values flattens to the same map.
C13_FlattenedIntegerKeys ==
  call \in {"flattenKafkaConfigSettings", "flattenKafkaTopicConfig"} =>
    /\ \A i \in 1..Len(IntParamsFlattened) :
          LET field == args.settings[IntParamsFlattened[i][1]]
              attr  == IntParamsFlattened[i][2]
          IN  /\ attr \in DOMAIN ret.val <=> field # Nil
              /\ field # Nil => IsDecimalOf(ret.val[attr], field[1])
    /\ "compression_type" \in DOMAIN ret.val <=> args.settings.CompressionType # 0
    /\ IF call = "flattenKafkaConfigSettings"
       THEN flattenKafkaConfigSettings(OtherVariant(args)).val = ret.val
       ELSE flattenKafkaTopicConfig(OtherVariant(args)) = ret.val

\* A 3.x config with num_partitions 0 and the least 64-bit integer.
C13_Witness ==
  /\ call = "flattenKafkaConfigSettings"
  /\ args.type = "KafkaConfig3"
  /\ args.settings.NumPartitions = Some(Int64Zero)
  /\ args.settings.LogRetentionBytes = Some([neg |-> TRUE, mag |-> MinInt64Mag])
  /\ args.settings.CompressionType = 0
  /\ ret.val.num_partitions = <<"0">>
  /\ ret.val.log_retention_bytes = <<"-","9","2","2","3","3","7","2","0","3","6","8","5","4","7","7","5","8","0","8">>
  /\ DOMAIN ret.val = {"num_partitions", "log_retention_bytes"}

\* A 2.8 topic config with flush_ms 0 and a compression type.
C13_TopicWitness ==
  /\ call = "flattenKafkaTopicConfig"
  /\ args.type = "TopicConfig2_8"
  /\ args.settings.FlushMs = Some(Int64Zero)
  /\ args.settings.CompressionType = 2
  /\ ret.val.flush_ms = <<"0">>
  /\ ret.val.compression_type = <<"C","O","M","P","R","E","S","S","I","O","N","_","T","Y","P","E","_","Z","S","T","D">>

----------------------------------------------------------------------------
(* The maintenance window.                                                 *)
(* The block maintenance_window of the tree is a sequence of at most one   *)
(* record [type, hour, day]; an attribute that is not set holds the zero   *)
(* value of its type, for which GetOk is not ok.                           *)

WeeklyMaintenanceWindow_WeekDay_value ==
  <<"W","E","E","K","_","D","A","Y","_","U","N","S","P","E","C","I","F","I","E","D">> :> 0 @@
  <<"M","O","N">> :> 1 @@ <<"T","U","E">> :> 2 @@ <<"W","E","D">> :> 3 @@ <<"T","H","U">> :> 4 @@
  <<"F","R","I">> :> 5 @@ <<"S","A","T">> :> 6 @@ <<"S","U","N">> :> 7

\* WeeklyMaintenanceWindow_WeekDay_name[day]: the empty string for a number
\* that is no key of the map.
WeeklyMaintenanceWindow_WeekDay_name(day) ==
  IF \E n \in DOMAIN WeeklyMaintenanceWindow_WeekDay_value :
        WeeklyMaintenanceWindow_WeekDay_value[n] = day
  THEN CHOOSE n \in DOMAIN WeeklyMaintenanceWindow_WeekDay_value :
          WeeklyMaintenanceWindow_WeekDay_value[n] = day
  ELSE <<>>

AnytimePolicy == [kind |-> "Anytime"]

WeeklyPolicy(hour, day) ==
  [kind |-> "WeeklyMaintenanceWindow", Hour |-> hour, Day |-> day]

\* An ANYTIME branch that does not look at the day.
expandAnytimeIgnoringDay(mw) ==
  IF mw.hour # 0
  THEN [val |-> Nil,
        err |-> Errorf("hour should not be set, when using ANYTIME", <<>>, <<>>)]
  ELSE [val |-> Some([Policy |-> Some(AnytimePolicy)]), err |-> NoErr]

\* The branch typeMW == "ANYTIME".  The hour is an int and the day a string
\* behind an interface: the comparison of the hour with "" is always true.
expandAnytime(mw) ==
  IF mw.hour # 0
  THEN [val |-> Nil,
        err |-> Errorf("hour should not be set, when using ANYTIME", <<>>, <<>>)]
  ELSE IF mw.day # <<>>
  THEN [val |-> Nil,
        err |-> Errorf("day should not be set, when using ANYTIME", <<>>, <<>>)]
  ELSE [val |-> Some([Policy |-> Some(AnytimePolicy)]), err |-> NoErr]

\* A WEEKLY branch that takes every key of the table of days.
expandWeeklyAnyKey(mw) ==
  IF mw.hour = 0
  THEN [val |-> Nil,
        err |-> Errorf("hour should be set when using WEEKLY maintenance", <<>>, <<>>)]
  ELSE IF mw.day \notin DOMAIN WeeklyMaintenanceWindow_WeekDay_value
  THEN [val |-> Nil,
        err |-> Errorf("day value should be one of (MON, TUE, WED, THU, FRI, SAT, SUN)",
                       <<>>, <<>>)]
  ELSE [val |-> Some([Policy |->
                        Some(WeeklyPolicy(mw.hour,
                                          WeeklyMaintenanceWindow_WeekDay_value[mw.day]))]),
        err |-> NoErr]

\* The branch typeMW == "WEEKLY".
expandWeekly(mw) ==
  IF mw.hour = 0
  THEN [val |-> Nil,
        err |-> Errorf("hour should be set when using WEEKLY maintenance", <<>>, <<>>)]
  ELSE IF mw.day \notin DOMAIN WeeklyMaintenanceWindow_WeekDay_value
          \/ WeeklyMaintenanceWindow_WeekDay_value[mw.day] = 0
  THEN [val |-> Nil,
        err |-> Errorf("day value should be one of (MON, TUE, WED, THU, FRI, SAT, SUN)",
                       <<>>, <<>>)]
  ELSE [val |-> Some([Policy |->
                        Some(WeeklyPolicy(mw.hour,
                                          WeeklyMaintenanceWindow_WeekDay_value[mw.day]))]),
        err |-> NoErr]

\* An expansion that takes every type that is not WEEKLY for ANYTIME.
expandKafkaMaintenanceWindowDefaultAnytime(dd) ==
  IF Len(dd.maintenance_window) = 0 THEN [val |-> Nil, err |-> NoErr]
  ELSE IF dd.maintenance_window[1].type = <<"W","E","E","K","L","Y">>
  THEN expandWeekly(dd.maintenance_window[1])
  ELSE expandAnytime(dd.maintenance_window[1])

expandKafkaMaintenanceWindow(dd) ==
  IF Len(dd.maintenance_window) = 0 THEN [val |-> Nil, err |-> NoErr]
  ELSE IF dd.maintenance_window[1].type = <<"A","N","Y","T","I","M","E">>
  THEN expandAnytime(dd.maintenance_window[1])
  ELSE IF dd.maintenance_window[1].type = <<"W","E","E","K","L","Y">>
  THEN expandWeekly(dd.maintenance_window[1])
  ELSE [val |-> Nil,
        err |-> Errorf("maintenance_window.0.type should be ANYTIME or WEEKLY",
                       <<>>, <<>>)]

\* A flattening that writes the type of the weekly variant only.
flattenKafkaMaintenanceWindowTypeOnly(mw) ==
  IF mw = Nil THEN [val |-> <<EmptyMap>>, err |-> NoErr]
  ELSE IF mw[1].Policy = Nil
  THEN [val |-> <<>>,
        err |-> Errorf("unsupported Kafka maintenance policy type", <<>>, <<>>)]
  ELSE IF mw[1].Policy[1].kind = "Anytime"
  THEN [val |-> <<[type |-> <<"A","N","Y","T","I","M","E">>]>>, err |-> NoErr]
  ELSE [val |-> <<[type |-> <<"W","E","E","K","L","Y">>]>>, err |-> NoErr]

\* mw is a pointer to a window; the Policy of a window is nil or one of the
\* two variants.
flattenKafkaMaintenanceWindow(mw) ==
  IF mw = Nil THEN [val |-> <<EmptyMap>>, err |-> NoErr]
  ELSE IF mw[1].Policy = Nil
  THEN [val |-> <<>>,
        err |-> Errorf("unsupported Kafka maintenance policy type", <<>>, <<>>)]
  ELSE IF mw[1].Policy[1].kind = "Anytime"
  THEN [val |-> <<[type |-> <<"A","N","Y","T","I","M","E">>]>>, err |-> NoErr]
  ELSE [val |-> <<[type |-> <<"W","E","E","K","L","Y">>,
                   hour |-> mw[1].Policy[1].Hour,
                   day |-> WeeklyMaintenanceWindow_WeekDay_name(mw[1].Policy[1].Day)]>>,
        err |-> NoErr]

\* Types, hours and days of a declared window: the two types, the empty and
\* other spellings; no hour (0), hours in and around 1..24; no day (the
\* empty string), tokens of the table and other spellings.
WindowTypes == {<<>>, <<"A","N","Y","T","I","M","E">>, <<"W","E","E","K","L","Y">>, <<"a","n","y","t","i","m","e">>, <<"w","e","e","k","l","y">>, <<"M","O","N","T","H","L","Y">>}

WindowHours == {0 - 5, 0 - 1, 0, 1, 3, 24, 25, 100}

WindowDays ==
  {<<>>, <<"M","O","N">>, <<"T","U","E">>, <<"S","U","N">>, <<"m","o","n">>, <<"M","o","n">>, <<"M","O","N","D","A","Y">>,
   <<"W","E","E","K","_","D","A","Y","_","U","N","S","P","E","C","I","F","I","E","D">>}

\* The windows the API can list: none, the two variants, and a window
\* without a policy.
ApiWindows ==
  {Nil, Some([Policy |-> Nil]), Some([Policy |-> Some(AnytimePolicy)])} \cup
  {Some([Policy |-> Some(WeeklyPolicy(h, dy))]) : h \in {1, 24}, dy \in 0..8}

InitMaintenanceWindow ==
  /\ \/ /\ d \in {[EmptyTree EXCEPT !.maintenance_window = mw] :
                    mw \in {<<>>} \cup
                           {<<b>> : b \in [type : WindowTypes, hour : WindowHours,
                                           day : WindowDays]}}
        /\ args = <<>>
     \/ /\ d = EmptyTree
        /\ args \in {<<mw>> : mw \in ApiWindows}
  /\ call = "idle"
  /\ ret = [val |-> Nil, err |-> NoErr]

CallExpandKafkaMaintenanceWindow ==
  /\ call = "idle"
  /\ args = <<>>
  /\ call' = "expandKafkaMaintenanceWindow"
  /\ ret' = expandKafkaMaintenanceWindow(d)
  /\ UNCHANGED <<d, args>>

\* The window that was sent is read back and flattened.
CallFlattenExpandedWindow ==
  /\ call = "expandKafkaMaintenanceWindow"
  /\ ret.err = NoErr
  /\ call' = "flattenKafkaMaintenanceWindow"
  /\ ret' = flattenKafkaMaintenanceWindow(ret.val)
  /\ UNCHANGED <<d, args>>

\* A window of the API is flattened.
CallFlattenKafkaMaintenanceWindow ==
  /\ call = "idle"
  /\ args # <<>>
  /\ call' = "flattenKafkaMaintenanceWindow"
  /\ ret' = flattenKafkaMaintenanceWindow(args[1])
  /\ UNCHANGED <<d, args>>

NextMaintenanceWindow ==
  \/ CallExpandKafkaMaintenanceWindow
  \/ CallFlattenExpandedWindow
  \/ CallFlattenKafkaMaintenanceWindow

SpecMaintenanceWindow == InitMaintenanceWindow /\ [][NextMaintenanceWindow]_vars

\* The declared window when expandKafkaMaintenanceWindow was called on one.
Expanded(type) ==
  /\ call = "expandKafkaMaintenanceWindow"
  /\ d.maintenance_window # <<>>
  /\ d.maintenance_window[1].type = type

DeclaredWindow == d.maintenance_window[1]

WeekDayTokens == {<<"M","O","N">>, <<"T","U","E">>, <<"W","E","D">>, <<"T","H","U">>, <<"F","R","I">>, <<"S","A","T">>, <<"S","U","N">>}

\* The ordinal of a day token: MON=1 .. SUN=7.
WeekDayOrdinal(day) ==
  CASE day = <<"M","O","N">> -> 1 [] day = <<"T","U","E">> -> 2 [] day = <<"W","E","D">> -> 3
    [] day = <<"T","H","U">> -> 4 [] day = <<"F","R","I">> -> 5 [] day = <<"S","A","T">> -> 6
    [] day = <<"S","U","N">> -> 7

\* C14: with type ANYTIME the call returns an error and no window when an
\* hour or a day is set, and the anytime variant when neither is set.
C14_AnytimeForbidsHourAndDay ==
  Expanded(<<"A","N","Y","T","I","M","E">>) =>
    IF DeclaredWindow.hour # 0 \/ DeclaredWindow.day # <<>>
    THEN ret.err # NoErr /\ ret.val = Nil
    ELSE ret.err = NoErr /\ ret.val = Some([Policy |-> Some([kind |-> "Anytime"])])

\* ANYTIME with a day and no hour is an error.
C14_Witness ==
  /\ Expanded(<<"A","N","Y","T","I","M","E">>)
  /\ DeclaredWindow.hour = 0
  /\ DeclaredWindow.day = <<"M","O","N">>
  /\ ret.err # NoErr

\* ANYTIME alone gives the anytime variant.
C14_AnytimeWitness ==
  /\ Expanded(<<"A","N","Y","T","I","M","E">>)
  /\ DeclaredWindow.hour = 0
  /\ DeclaredWindow.day = <<>>
  /\ ret.err = NoErr
  /\ ret.val[1].Policy[1].kind = "Anytime"

\* C15: with type WEEKLY the call succeeds exactly when an hour is given
\* and the day is one of MON .. SUN; it then returns the weekly variant
\* with the given hour and the ordinal of the day, MON=1 .. SUN=7; in every
\* other case it returns an error and no window.
C15_WeeklyNeedsHourAndDay ==
  Expanded(<<"W","E","E","K","L","Y">>) =>
    IF DeclaredWindow.hour # 0 /\ DeclaredWindow.day \in WeekDayTokens
    THEN /\ ret.err = NoErr
         /\ ret.val # Nil
         /\ ret.val[1].Policy[1].kind = "WeeklyMaintenanceWindow"
         /\ ret.val[1].Policy[1].Hour = DeclaredWindow.hour
         /\ ret.val[1].Policy[1].Day = WeekDayOrdinal(DeclaredWindow.day)
    ELSE ret.err # NoErr /\ ret.val = Nil

\* WEEKLY on MON at 3 gives the ordinal 1 and the hour 3.
C15_Witness ==
  /\ Expanded(<<"W","E","E","K","L","Y">>)
  /\ DeclaredWindow.hour = 3
  /\ DeclaredWindow.day = <<"M","O","N">>
  /\ ret.err = NoErr
  /\ ret.val[1].Policy[1].Hour = 3
  /\ ret.val[1].Policy[1].Day = 1

\* WEEKLY with the token of the zero day is an error.
C15_UnspecifiedDayWitness ==
  /\ Expanded(<<"W","E","E","K","L","Y">>)
  /\ DeclaredWindow.hour = 3
  /\ DeclaredWindow.day = <<"W","E","E","K","_","D","A","Y","_","U","N","S","P","E","C","I","F","I","E","D">>
  /\ ret.err # NoErr

\* C16: with type WEEKLY and a day of MON .. SUN the call returns an error
\* for every hour outside 1..24, and no weekly window it returns has an
\* hour outside 1..24.
C16_WeeklyHourInRange ==
  /\ (Expanded(<<"W","E","E","K","L","Y">>) /\ DeclaredWindow.day \in WeekDayTokens
        /\ DeclaredWindow.hour \notin 1..24)
       => ret.err # NoErr /\ ret.val = Nil
  /\ (call = "expandKafkaMaintenanceWindow" /\ ret.val # Nil
        /\ ret.val[1].Policy[1].kind = "WeeklyMaintenanceWindow")
       => ret.val[1].Policy[1].Hour \in 1..24

\* C17: with a block whose type is neither ANYTIME nor WEEKLY the call
\* returns an error and no window; without a block it returns no window
\* and no error.
C17_OtherTypesFail ==
  call = "expandKafkaMaintenanceWindow" =>
    /\ d.maintenance_window = <<>> => ret.val = Nil /\ ret.err = NoErr
    /\ (d.maintenance_window # <<>>
          /\ DeclaredWindow.type \notin {<<"A","N","Y","T","I","M","E">>, <<"W","E","E","K","L","Y">>})
         => ret.val = Nil /\ ret.err # NoErr

\* A lower-case type is an error.
C17_Witness ==
  /\ Expanded(<<"w","e","e","k","l","y">>)
  /\ DeclaredWindow.hour = 3
  /\ DeclaredWindow.day = <<"M","O","N">>
  /\ ret.val = Nil
  /\ ret.err # NoErr

\* No block gives no window and no error.
C17_AbsentWitness ==
  /\ call = "expandKafkaMaintenanceWindow"
  /\ d.maintenance_window = <<>>
  /\ ret = [val |-> Nil, err |-> NoErr]

\* C18: the flattening of a window that expandKafkaMaintenanceWindow
\* returned for a declared window has the declared type; for WEEKLY it has
\* the declared day and hour, for ANYTIME no other key than type; and the
\* flattening of a window of the API whose policy is no variant is an error.
C18_FlattenInvertsExpand ==
  call = "flattenKafkaMaintenanceWindow" =>
    /\ (args = <<>> /\ d.maintenance_window # <<>>) =>
          /\ ret.err = NoErr
          /\ Len(ret.val) = 1
          /\ ret.val[1].type = DeclaredWindow.type
          /\ DeclaredWindow.type = <<"W","E","E","K","L","Y">> =>
                /\ DOMAIN ret.val[1] = {"type", "hour", "day"}
                /\ ret.val[1].hour = DeclaredWindow.hour
                /\ ret.val[1].day = DeclaredWindow.day
          /\ DeclaredWindow.type = <<"A","N","Y","T","I","M","E">> => DOMAIN ret.val[1] = {"type"}
    /\ (args # <<>> /\ args[1] # Nil /\ args[1][1].Policy = Nil) =>
          ret.err # NoErr /\ ret.val = <<>>

\* WEEKLY on SUN at 24 comes back as declared.
C18_Witness ==
  /\ call = "flattenKafkaMaintenanceWindow"
  /\ args = <<>>
  /\ d.maintenance_window = <<[type |-> <<"W","E","E","K","L","Y">>, hour |-> 24, day |-> <<"S","U","N">>]>>
  /\ ret.val = <<[type |-> <<"W","E","E","K","L","Y">>, hour |-> 24, day |-> <<"S","U","N">>]>>

\* A window without a policy does not flatten.
C18_NoPolicyWitness ==
  /\ call = "flattenKafkaMaintenanceWindow"
  /\ args = <<Some([Policy |-> Nil])>>
  /\ ret.err # NoErr

----------------------------------------------------------------------------
(* Disk size autoscaling.                                                  *)

\* toGigabytes(bytesCount): the whole gibibytes of a byte count.
toGigabytes(bytesCount) == bytesCount.gib

\* A flattening that converts the thresholds as it converts the limit.
flattenKafkaDiskSizeAutoscalingConvertingAll(p) ==
  IF p = Nil THEN <<>>
  ELSE <<[disk_size_limit |-> toGigabytes(p[1].DiskSizeLimit),
          planned_usage_threshold |-> p[1].PlannedUsageThreshold \div (2^30),
          emergency_usage_threshold |-> p[1].EmergencyUsageThreshold \div (2^30)]>>

\* p is a pointer to a DiskSizeAutoscaling; the result is a nil slice or a
\* slice of one map.
flattenKafkaDiskSizeAutoscaling(p) ==
  IF p = Nil THEN <<>>
  ELSE <<[disk_size_limit |-> toGigabytes(p[1].DiskSizeLimit),
          planned_usage_threshold |-> p[1].PlannedUsageThreshold,
          emergency_usage_threshold |-> p[1].EmergencyUsageThreshold]>>

\* The byte count n, for a number n below 2^31.
BytesOf(n) == [gib |-> n \div (2^30), rem |-> n % (2^30)]

\* Declared limits and thresholds.
DeclaredLimits == {0, 1, 100, 2048}

Thresholds == {0 - 10, 0, 50, 70, 90, 100, 150}

AutoscalingBlocks ==
  [disk_size_limit : DeclaredLimits,
   planned_usage_threshold : Thresholds,
   emergency_usage_threshold : Thresholds]

\* The objects the API can list: none, limits of whole gibibytes (100 GiB is
\* 107374182400 bytes) and limits that are not whole gibibytes.
ApiAutoscalings ==
  {Nil} \cup
  {Some([DiskSizeLimit |-> [gib |-> g, rem |-> r],
         PlannedUsageThreshold |-> pl,
         EmergencyUsageThreshold |-> em]) :
      g \in {0, 1, 100}, r \in {0, 1, 2^30 - 1}, pl \in {0, 70}, em \in {0, 90, 100}}

InitDiskSizeAutoscaling ==
  /\ \/ /\ d \in {[EmptyTree EXCEPT !.config.disk_size_autoscaling = b] :
                    b \in {<<>>} \cup {<<x>> : x \in AutoscalingBlocks}}
        /\ args = <<>>
     \/ /\ d = EmptyTree
        /\ args \in {<<p>> : p \in ApiAutoscalings}
  /\ call = "idle"
  /\ ret = <<>>

CallExpandKafkaDiskSizeAutoscaling ==
  /\ call = "idle"
  /\ args = <<>>
  /\ call' = "expandKafkaDiskSizeAutoscaling"
  /\ ret' = expandKafkaDiskSizeAutoscaling(d)
  /\ UNCHANGED <<d, args>>

\* The object that was sent is read back and flattened.
CallFlattenExpandedAutoscaling ==
  /\ call = "expandKafkaDiskSizeAutoscaling"
  /\ call' = "flattenKafkaDiskSizeAutoscaling"
  /\ ret' = flattenKafkaDiskSizeAutoscaling(ret)
  /\ UNCHANGED <<d, args>>

\* An object of the API is flattened.
CallFlattenKafkaDiskSizeAutoscaling ==
  /\ call = "idle"
  /\ args # <<>>
  /\ call' = "flattenKafkaDiskSizeAutoscaling"
  /\ ret' = flattenKafkaDiskSizeAutoscaling(args[1])
  /\ UNCHANGED <<d, args>>

NextDiskSizeAutoscaling ==
  \/ CallExpandKafkaDiskSizeAutoscaling
  \/ CallFlattenExpandedAutoscaling
  \/ CallFlattenKafkaDiskSizeAutoscaling

SpecDiskSizeAutoscaling ==
  InitDiskSizeAutoscaling /\ [][NextDiskSizeAutoscaling]_vars

C19_NilWitness ==
  /\ call = "flattenKafkaDiskSizeAutoscaling"
  /\ args = <<Nil>>
  /\ ret = <<>>

\* C20: the declared disk_size_limit is a number of bytes: the
\* DiskSizeLimit that expandKafkaDiskSizeAutoscaling sends is the declared
\* number, and the flattening of what was sent is the declared number.
C20_LimitDeclaredInBytes ==
  d.config.disk_size_autoscaling # <<>> =>
    /\ call = "expandKafkaDiskSizeAutoscaling" =>
          ret[1].DiskSizeLimit = BytesOf(d.config.disk_size_autoscaling[1].disk_size_limit)
    /\ (call = "flattenKafkaDiskSizeAutoscaling" /\ args = <<>>) =>
          ret[1].disk_size_limit = d.config.disk_size_autoscaling[1].disk_size_limit

\* The part of C20 that holds: what was declared comes back.
DeclaredLimitComesBack ==
  (call = "flattenKafkaDiskSizeAutoscaling" /\ args = <<>>
     /\ d.config.disk_size_autoscaling # <<>>) =>
    ret[1].disk_size_limit = d.config.disk_size_autoscaling[1].disk_size_limit

\* A declared limit of 100 is sent as 100 * 2^30 bytes.
DeclaredLimitSentAsGigabytes ==
  /\ call = "expandKafkaDiskSizeAutoscaling"
  /\ d.config.disk_size_autoscaling # <<>>
  /\ d.config.disk_size_autoscaling[1].disk_size_limit = 100
  /\ ret[1].DiskSizeLimit = [gib |-> 100, rem |-> 0]

----------------------------------------------------------------------------
(* The block disk_size_autoscaling and its sub-fields.                     *)

DeclaredAutoscaling == d.config.disk_size_autoscaling

\* What the expansion returns for the block b in the place of the declared
\* one.
ExpandedWith(b) ==
  expandKafkaDiskSizeAutoscaling(
     [d EXCEPT !.config.disk_size_autoscaling = <<b>>])

\* C21: the expansion returns no object when the block does not exist and
\* an object when it exists; for a block of defaults the three fields of
\* the object are 0; and each field of the object is decided by its own
\* sub-field, whatever the other two hold, a set sub-field giving a field
\* that is not 0.
C21_BlockAndFieldsSeparately ==
  call = "expandKafkaDiskSizeAutoscaling" =>
    IF DeclaredAutoscaling = <<>> THEN ret = Nil
    ELSE /\ ret # Nil
         /\ DeclaredAutoscaling[1] =
               [disk_size_limit |-> 0, planned_usage_threshold |-> 0,
                emergency_usage_threshold |-> 0]
            => ret[1] = [DiskSizeLimit |-> [gib |-> 0, rem |-> 0],
                         PlannedUsageThreshold |-> 0,
                         EmergencyUsageThreshold |-> 0]
         /\ DeclaredAutoscaling[1].disk_size_limit # 0 =>
               ret[1].DiskSizeLimit # [gib |-> 0, rem |-> 0]
         /\ DeclaredAutoscaling[1].planned_usage_threshold # 0 =>
               ret[1].PlannedUsageThreshold # 0
         /\ DeclaredAutoscaling[1].emergency_usage_threshold # 0 =>
               ret[1].EmergencyUsageThreshold # 0
         /\ \A b \in AutoscalingBlocks :
               /\ ExpandedWith(b) # Nil
               /\ b.disk_size_limit = DeclaredAutoscaling[1].disk_size_limit =>
                     ExpandedWith(b)[1].DiskSizeLimit = ret[1].DiskSizeLimit
               /\ b.planned_usage_threshold =
                     DeclaredAutoscaling[1].planned_usage_threshold =>
                     ExpandedWith(b)[1].PlannedUsageThreshold =
                        ret[1].PlannedUsageThreshold
               /\ b.emergency_usage_threshold =
                     DeclaredAutoscaling[1].emergency_usage_threshold =>
                     ExpandedWith(b)[1].EmergencyUsageThreshold =
                        ret[1].EmergencyUsageThreshold

\* A block of defaults gives an object of zeros.
C21_Witness ==
  /\ call = "expandKafkaDiskSizeAutoscaling"
  /\ DeclaredAutoscaling =
        <<[disk_size_limit |-> 0, planned_usage_threshold |-> 0,
           emergency_usage_threshold |-> 0]>>
  /\ ret # Nil
  /\ ret[1].PlannedUsageThreshold = 0

\* No block gives no object.
C21_AbsentWitness ==
  /\ call = "expandKafkaDiskSizeAutoscaling"
  /\ DeclaredAutoscaling = <<>>
  /\ ret = Nil

\* C22: for every block, with the emergency threshold below the planned one
\* and with thresholds outside 0..100 too, the expansion returns an object
\* that holds both thresholds as declared.
C22_ThresholdsNotValidated ==
  (call = "expandKafkaDiskSizeAutoscaling" /\ DeclaredAutoscaling # <<>>) =>
    /\ ret # Nil
    /\ ret[1].PlannedUsageThreshold = DeclaredAutoscaling[1].planned_usage_threshold
    /\ ret[1].EmergencyUsageThreshold =
          DeclaredAutoscaling[1].emergency_usage_threshold

\* An emergency threshold of 50 below a planned threshold of 70.
C22_Witness ==
  /\ call = "expandKafkaDiskSizeAutoscaling"
  /\ DeclaredAutoscaling # <<>>
  /\ DeclaredAutoscaling[1].planned_usage_threshold = 70
  /\ DeclaredAutoscaling[1].emergency_usage_threshold = 50
  /\ ret # Nil
  /\ ret[1].PlannedUsageThreshold = 70
  /\ ret[1].EmergencyUsageThreshold = 50

\* A threshold of 150.
C22_RangeWitness ==
  /\ call = "expandKafkaDiskSizeAutoscaling"
  /\ DeclaredAutoscaling # <<>>
  /\ DeclaredAutoscaling[1].planned_usage_threshold = 150
  /\ ret # Nil
  /\ ret[1].PlannedUsageThreshold = 150


----------------------------------------------------------------------------
(* The cleanup policy of a topic: one table for the declared token, one    *)
(* enumeration per Kafka version in the API.                               *)

\* The TopicConfig2_8_CleanupPolicy and TopicConfig3_CleanupPolicy
\* enumerations of the API, by name and by number.
TopicConfig2_8_CleanupPolicy_value == Topic_CleanupPolicy_value

TopicConfig3_CleanupPolicy_value == Topic_CleanupPolicy_value

\* m[key] of a Go map: the zero value for a key that is not in the map.
ValueOrZero(m, key) == IF key \in DOMAIN m THEN m[key] ELSE 0

\* The String() of an enumeration member: the name the table gives the number.
TopicConfig2_8_CleanupPolicy_String(n) ==
  Only({name \in DOMAIN TopicConfig2_8_CleanupPolicy_value :
          TopicConfig2_8_CleanupPolicy_value[name] = n})

TopicConfig3_CleanupPolicy_String(n) ==
  Only({name \in DOMAIN TopicConfig3_CleanupPolicy_value :
          TopicConfig3_CleanupPolicy_value[name] = n})

\* The TopicConfigSpec variant built from a parsed TopicConfig.
TopicConfigVariant(type, table, parsed) ==
  IF parsed.err # NoErr THEN [val |-> Nil, err |-> parsed.err]
  ELSE [val |-> Some([type |-> type,
                      settings |-> [parsed.val[1] EXCEPT
                         !.CleanupPolicy = ValueOrZero(table, @)]]),
        err |-> NoErr]

\* An expander that leaves the cleanup policy of the API object unset.
expandKafkaTopicConfigNoCleanupPolicy(dd, topicConfigPrefix) ==
  Only({TopicConfigVariant("TopicConfig2_8", EmptyMap, parsed) :
          parsed \in {parseKafkaTopicConfig(dd, topicConfigPrefix)}})

expandKafkaTopicConfig2_8(dd, topicConfigPrefix) ==
  Only({TopicConfigVariant("TopicConfig2_8", TopicConfig2_8_CleanupPolicy_value,
                           parsed) :
          parsed \in {parseKafkaTopicConfig(dd, topicConfigPrefix)}})

expandKafkaTopicConfig3x(dd, topicConfigPrefix) ==
  Only({TopicConfigVariant("TopicConfig3", TopicConfig3_CleanupPolicy_value,
                           parsed) :
          parsed \in {parseKafkaTopicConfig(dd, topicConfigPrefix)}})

flattenKafkaTopicConfig2_8(topicConfig) ==
  (IF topicConfig.settings.CleanupPolicy # 0
   THEN [cleanup_policy |->
           TopicConfig2_8_CleanupPolicy_String(topicConfig.settings.CleanupPolicy)]
   ELSE EmptyMap) @@
  flattenKafkaTopicConfig(topicConfig)

flattenKafkaTopicConfig3(topicConfig) ==
  (IF topicConfig.settings.CleanupPolicy # 0
   THEN [cleanup_policy |->
           TopicConfig3_CleanupPolicy_String(topicConfig.settings.CleanupPolicy)]
   ELSE EmptyMap) @@
  flattenKafkaTopicConfig(topicConfig)

\* Declared cleanup policies: every member name, no policy, and strings that
\* are no member name.
CleanupPolicyTokens ==
  DOMAIN Topic_CleanupPolicy_value \cup
  {<<>>, <<"c","l","e","a","n","u","p","_","p","o","l","i","c","y","_","d","e","l","e","t","e">>, <<"D","E","L","E","T","E">>, <<"C","L","E","A","N","U","P","_","P","O","L","I","C","Y","_","C","O","M","P","A","C","T"," ">>}

\* Topic settings with any declared cleanup policy, with or without a
\* compression type, a retention and the preallocate flag.
CleanupPolicySettings ==
  {[EmptyTopicConfig EXCEPT !.cleanup_policy = cp, !.compression_type = ct,
                            !.retention_ms = ms, !.preallocate = pre] :
      cp \in CleanupPolicyTokens,
      ct \in {<<>>, <<"C","O","M","P","R","E","S","S","I","O","N","_","T","Y","P","E","_","Z","S","T","D">>},
      ms \in {<<>>, <<"1","0","2","4">>},
      pre \in BOOLEAN}

InitTopicCleanupPolicy ==
  /\ \E tc \in CleanupPolicySettings :
        d = [EmptyTree EXCEPT !.topic = <<TopicBlock(<<"i","n","p","u","t">>, tc)>>]
  /\ call = "idle"
  /\ args = <<1>>
  /\ ret = [val |-> Nil, err |-> NoErr]

CallExpandKafkaTopicConfig2_8 ==
  /\ call = "idle"
  /\ call' = "expandKafkaTopicConfig2_8"
  /\ ret' = expandKafkaTopicConfig2_8(d, args[1])
  /\ UNCHANGED <<d, args>>

CallExpandKafkaTopicConfig3x ==
  /\ call = "idle"
  /\ call' = "expandKafkaTopicConfig3x"
  /\ ret' = expandKafkaTopicConfig3x(d, args[1])
  /\ UNCHANGED <<d, args>>

\* The topic configuration the API gives back is the one that was sent.
CallFlattenKafkaTopicConfig2_8 ==
  /\ call = "expandKafkaTopicConfig2_8"
  /\ ret.err = NoErr
  /\ call' = "flattenKafkaTopicConfig2_8"
  /\ ret' = [val |-> flattenKafkaTopicConfig2_8(ret.val[1]), err |-> NoErr]
  /\ UNCHANGED <<d, args>>

CallFlattenKafkaTopicConfig3 ==
  /\ call = "expandKafkaTopicConfig3x"
  /\ ret.err = NoErr
  /\ call' = "flattenKafkaTopicConfig3"
  /\ ret' = [val |-> flattenKafkaTopicConfig3(ret.val[1]), err |-> NoErr]
  /\ UNCHANGED <<d, args>>

NextTopicCleanupPolicy ==
  \/ CallExpandKafkaTopicConfig2_8
  \/ CallExpandKafkaTopicConfig3x
  \/ CallFlattenKafkaTopicConfig2_8
  \/ CallFlattenKafkaTopicConfig3

SpecTopicCleanupPolicy ==
  InitTopicCleanupPolicy /\ [][NextTopicCleanupPolicy]_vars

DeclaredCleanupPolicy == d.topic[args[1]].topic_config.cleanup_policy

CleanupPolicyAccepted ==
  parseKafkaTopicCleanupPolicy(DeclaredCleanupPolicy).err = NoErr

\* The name of the member the expanded object holds, in the enumeration of
\* its own version.
ExpandedCleanupPolicyName ==
  IF ret.val[1].type = "TopicConfig2_8"
  THEN TopicConfig2_8_CleanupPolicy_String(ret.val[1].settings.CleanupPolicy)
  ELSE TopicConfig3_CleanupPolicy_String(ret.val[1].settings.CleanupPolicy)

\* C23: a cleanup_policy token that parseKafkaTopicCleanupPolicy accepts is
\* expanded, for 2.8 and for 3.x alike, to a member that is not the
\* unspecified one and whose name is the token, and the flattener of the
\* version gives the token back under cleanup_policy; an empty cleanup_policy
\* is expanded to the unspecified member and flattened to a map without the
\* key cleanup_policy.
C23_CleanupPolicyByName ==
  /\ (call \in {"expandKafkaTopicConfig2_8", "expandKafkaTopicConfig3x"}
      /\ CleanupPolicyAccepted)
       => /\ ret.err = NoErr
          /\ ret.val # Nil
          /\ ret.val[1].type =
               (IF call = "expandKafkaTopicConfig2_8" THEN "TopicConfig2_8"
                ELSE "TopicConfig3")
          /\ ret.val[1].settings.CleanupPolicy # 0
          /\ ExpandedCleanupPolicyName = DeclaredCleanupPolicy
  /\ (call \in {"flattenKafkaTopicConfig2_8", "flattenKafkaTopicConfig3"}
      /\ CleanupPolicyAccepted)
       => /\ "cleanup_policy" \in DOMAIN ret.val
          /\ ret.val.cleanup_policy = DeclaredCleanupPolicy
  /\ (call \in {"expandKafkaTopicConfig2_8", "expandKafkaTopicConfig3x"}
      /\ DeclaredCleanupPolicy = <<>>)
       => /\ ret.err = NoErr
          /\ ret.val # Nil
          /\ ret.val[1].settings.CleanupPolicy = 0
  /\ (call \in {"flattenKafkaTopicConfig2_8", "flattenKafkaTopicConfig3"}
      /\ DeclaredCleanupPolicy = <<>>)
       => "cleanup_policy" \notin DOMAIN ret.val

\* COMPACT_AND_DELETE has come back from the 3.x flattener.
C23_Witness ==
  /\ call = "flattenKafkaTopicConfig3"
  /\ DeclaredCleanupPolicy = <<"C","L","E","A","N","U","P","_","P","O","L","I","C","Y","_","C","O","M","P","A","C","T","_","A","N","D","_","D","E","L","E","T","E">>
  /\ ret.val.cleanup_policy = <<"C","L","E","A","N","U","P","_","P","O","L","I","C","Y","_","C","O","M","P","A","C","T","_","A","N","D","_","D","E","L","E","T","E">>

\* DELETE has been expanded for 2.8.
C23_ExpandWitness ==
  /\ call = "expandKafkaTopicConfig2_8"
  /\ DeclaredCleanupPolicy = <<"C","L","E","A","N","U","P","_","P","O","L","I","C","Y","_","D","E","L","E","T","E">>
  /\ ret.err = NoErr
  /\ ret.val[1].settings.CleanupPolicy = 1

\* A topic without cleanup policy has been flattened.
C23_EmptyWitness ==
  /\ call = "flattenKafkaTopicConfig2_8"
  /\ DeclaredCleanupPolicy = <<>>

----------------------------------------------------------------------------
(* Member names through the enumeration parsers and back.                  *)

Topic_CleanupPolicy_name ==
  0 :> <<"C","L","E","A","N","U","P","_","P","O","L","I","C","Y","_","U","N","S","P","E","C","I","F","I","E","D">> @@
  1 :> <<"C","L","E","A","N","U","P","_","P","O","L","I","C","Y","_","D","E","L","E","T","E">> @@
  2 :> <<"C","L","E","A","N","U","P","_","P","O","L","I","C","Y","_","C","O","M","P","A","C","T">> @@
  3 :> <<"C","L","E","A","N","U","P","_","P","O","L","I","C","Y","_","C","O","M","P","A","C","T","_","A","N","D","_","D","E","L","E","T","E">>

\* The table the parser that was called looks its argument up in.
ParserTable ==
  CASE call = "parseKafkaEnv" -> Cluster_Environment_value
    [] call = "parseKafkaCompression" -> CompressionType_value
    [] call = "parseKafkaSaslMechanism" -> SaslMechanism_value
    [] call = "parseKafkaPermissionRole" -> Permission_AccessRole_value
    [] call = "parseKafkaTopicCleanupPolicy" -> Topic_CleanupPolicy_value

\* The names ParserTable gives the number n.
NamesOfOrdinal(n) == {name \in DOMAIN ParserTable : ParserTable[name] = n}

\* The member names of ParserTable other than the unspecified member.
SpecifiedMembers == {name \in DOMAIN ParserTable : ParserTable[name] # 0}

\* C24: every enumeration parser takes every member name other than the
\* unspecified member to an ordinal without error, and the name of that
\* ordinal is the string that was parsed; a string that is no key of the
\* table is rejected with an error that carries the string and lists the
\* member names, every specified member among them.
C24_MemberNamesRoundTrip ==
  call \in EnumParsers =>
    /\ args[1] \in SpecifiedMembers =>
         /\ ret.err = NoErr
         /\ ret.val # 0
         /\ NamesOfOrdinal(ret.val) = {args[1]}
         /\ call = "parseKafkaTopicCleanupPolicy" =>
              Topic_CleanupPolicy_name[ret.val] = args[1]
         /\ call = "parseKafkaCompression" =>
              CompressionTypeString(ret.val) = args[1]
         /\ call = "parseKafkaSaslMechanism" =>
              SaslMechanismString(ret.val) = args[1]
    /\ args[1] \notin DOMAIN ParserTable =>
         /\ ret.err # NoErr
         /\ ret.err[1].value = args[1]
         /\ SpecifiedMembers \subseteq Range(ret.err[1].keys)
         /\ Range(ret.err[1].keys) \subseteq DOMAIN ParserTable

\* A member name has been parsed by the parser of its enumeration.
C24_Witness ==
  /\ call = "parseKafkaSaslMechanism"
  /\ args[1] = <<"S","A","S","L","_","M","E","C","H","A","N","I","S","M","_","S","C","R","A","M","_","S","H","A","_","5","1","2">>
  /\ ret.err = NoErr

\* A member name in lower case has been rejected.
C24_CaseWitness ==
  /\ call = "parseKafkaEnv"
  /\ args[1] = <<"p","r","o","d","u","c","t","i","o","n">>
  /\ ret.err # NoErr

\* The empty string has been rejected.
C24_EmptyWitness ==
  /\ call = "parseKafkaPermissionRole"
  /\ args[1] = <<>>
  /\ ret.err # NoErr

----------------------------------------------------------------------------
(* The flatteners of the connectors.  A oneof field of an API object holds *)
(* Nil or one variant, a record with the variant's type and its message;   *)
(* a nil map is the map without keys.                                      *)

\* GetValue() of a wrapped integer: 0 behind a nil pointer.
GetValue(w) == IF w = Nil THEN Int64Zero ELSE w[1]

flattenKafkaExternalClusterConnection(ecc) ==
  [bootstrap_servers |-> ecc.BootstrapServers,
   sasl_username |-> ecc.SaslUsername,
   sasl_mechanism |-> ecc.SaslMechanism,
   security_protocol |-> ecc.SecurityProtocol]

\* The type switch of flattenKafkaClusterConnection.
ClusterConnectionCase(cc) ==
  IF cc.ClusterConnection = Nil THEN "default"
  ELSE IF cc.ClusterConnection[1].type = "ClusterConnection_ThisCluster"
  THEN "ThisCluster"
  ELSE IF cc.ClusterConnection[1].type = "ClusterConnection_ExternalCluster"
  THEN "ExternalCluster"
  ELSE "default"

\* A flattener whose default case returns the configuration built so far.
flattenKafkaClusterConnectionSilent(cc) ==
  [val |-> [alias |-> cc.Alias] @@
           (CASE ClusterConnectionCase(cc) = "ThisCluster" ->
                   [this_cluster |-> <<EmptyMap>>]
              [] ClusterConnectionCase(cc) = "ExternalCluster" ->
                   [external_cluster |->
                      <<flattenKafkaExternalClusterConnection(
                          cc.ClusterConnection[1].ExternalCluster)>>]
              [] OTHER -> EmptyMap),
   err |-> NoErr]

flattenKafkaClusterConnection(cc) ==
  CASE ClusterConnectionCase(cc) = "ThisCluster" ->
         [val |-> [alias |-> cc.Alias, this_cluster |-> <<EmptyMap>>],
          err |-> NoErr]
    [] ClusterConnectionCase(cc) = "ExternalCluster" ->
         [val |-> [alias |-> cc.Alias,
                   external_cluster |->
                     <<flattenKafkaExternalClusterConnection(
                         cc.ClusterConnection[1].ExternalCluster)>>],
          err |-> NoErr]
    [] OTHER ->
         [val |-> EmptyMap,
          err |-> Errorf("cluster connection type of mirrormaker's cluster with alias %q not specified",
                         <<>>, cc.Alias)]

flattenKafkaConnectorMirrormaker(mm) ==
  LET config == [topics |-> mm.Topics,
                 replication_factor |-> GetValue(mm.ReplicationFactor)]
  IN  Only({IF sourceCluster.err # NoErr
            THEN [val |-> Nil, err |-> sourceCluster.err]
            ELSE IF targetCluster.err # NoErr
            THEN [val |-> Nil, err |-> targetCluster.err]
            ELSE [val |-> <<[source_cluster |-> <<sourceCluster.val>>,
                             target_cluster |-> <<targetCluster.val>>] @@ config>>,
                  err |-> NoErr] :
              sourceCluster \in {flattenKafkaClusterConnection(mm.SourceCluster)},
              targetCluster \in {flattenKafkaClusterConnection(mm.TargetCluster)}})

flattenExternalS3Storage(externalS3) ==
  [access_key_id |-> externalS3.AccessKeyId,
   endpoint |-> externalS3.Endpoint,
   region |-> externalS3.Region]

flattenS3Connection(s3Conn) ==
  IF s3Conn.Storage # Nil /\ s3Conn.Storage[1].type = "S3Connection_ExternalS3"
  THEN [val |-> [bucket_name |-> s3Conn.BucketName,
                 external_s3 |->
                   <<flattenExternalS3Storage(s3Conn.Storage[1].ExternalS3)>>],
        err |-> NoErr]
  ELSE [val |-> EmptyMap,
        err |-> Errorf("this s3 connection type of s3-sink connector is not supported by current version of terraform provider",
                       <<>>, <<>>)]

flattenKafkaConnectorS3Sink(s3Sink) ==
  LET config == [topics |-> s3Sink.Topics,
                 file_compression_type |-> s3Sink.FileCompressionType,
                 file_max_records |-> GetValue(s3Sink.FileMaxRecords)]
  IN  Only({IF s3Connection.err # NoErr
            THEN [val |-> Nil, err |-> s3Connection.err]
            ELSE [val |-> <<[s3_connection |-> <<s3Connection.val>>] @@ config>>,
                  err |-> NoErr] :
              s3Connection \in {flattenS3Connection(s3Sink.S3Connection)}})

\* Cluster connections of each variant, of no variant, and of a variant the
\* provider does not know.
ApiClusterConnections ==
  [Alias : {<<"s","o","u","r","c","e">>, <<"t","a","r","g","e","t">>},
   ClusterConnection :
     {Nil,
      Some([type |-> "ClusterConnection_ThisCluster"]),
      Some([type |-> "ClusterConnection_ExternalCluster",
            ExternalCluster |-> [BootstrapServers |-> <<"b","r","o","k","e","r",":","9","0","9","1">>,
                                 SaslUsername |-> <<"m","i","r","r","o","r">>,
                                 SaslMechanism |-> <<"S","C","R","A","M","-","S","H","A","-","5","1","2">>,
                                 SecurityProtocol |-> <<"S","A","S","L","_","S","S","L">>]]),
      Some([type |-> "ClusterConnection_OtherCluster"])}]

ApiS3Connections ==
  [BucketName : {<<"l","o","g","s">>, <<>>},
   Storage :
     {Nil,
      Some([type |-> "S3Connection_ExternalS3",
            ExternalS3 |-> [AccessKeyId |-> <<"k","e","y">>, Endpoint |-> <<"s","3",".","e","x","a","m","p","l","e">>,
                            Region |-> <<"e","u">>]]),
      Some([type |-> "S3Connection_OtherStorage"])}]

ApiMirrormakers ==
  [Topics : {<<"d","a","t","a",".","*">>},
   ReplicationFactor : {Nil, Some([neg |-> FALSE, mag |-> <<"3">>])},
   SourceCluster : {cc \in ApiClusterConnections : cc.Alias = <<"s","o","u","r","c","e">>},
   TargetCluster : {cc \in ApiClusterConnections : cc.Alias = <<"t","a","r","g","e","t">>}]

ApiS3Sinks ==
  [Topics : {<<"d","a","t","a",".","*">>},
   FileCompressionType : {<<"g","z","i","p">>, <<>>},
   FileMaxRecords : {Nil, Some([neg |-> FALSE, mag |-> <<"1","0","2","4">>])},
   S3Connection : ApiS3Connections]

InitConnector ==
  /\ d = EmptyTree
  /\ call = "idle"
  /\ \/ args \in {<<"ClusterConnection", cc>> : cc \in ApiClusterConnections}
     \/ args \in {<<"S3Connection", s3Conn>> : s3Conn \in ApiS3Connections}
     \/ args \in {<<"ConnectorConfigMirrorMaker", mm>> : mm \in ApiMirrormakers}
     \/ args \in {<<"ConnectorConfigS3Sink", s3Sink>> : s3Sink \in ApiS3Sinks}
  /\ ret = [val |-> Nil, err |-> NoErr]

CallFlattenKafkaClusterConnection ==
  /\ call = "idle"
  /\ args[1] = "ClusterConnection"
  /\ call' = "flattenKafkaClusterConnection"
  /\ ret' = flattenKafkaClusterConnection(args[2])
  /\ UNCHANGED <<d, args>>

CallFlattenS3Connection ==
  /\ call = "idle"
  /\ args[1] = "S3Connection"
  /\ call' = "flattenS3Connection"
  /\ ret' = flattenS3Connection(args[2])
  /\ UNCHANGED <<d, args>>

CallFlattenKafkaConnectorMirrormaker ==
  /\ call = "idle"
  /\ args[1] = "ConnectorConfigMirrorMaker"
  /\ call' = "flattenKafkaConnectorMirrormaker"
  /\ ret' = flattenKafkaConnectorMirrormaker(args[2])
  /\ UNCHANGED <<d, args>>

CallFlattenKafkaConnectorS3Sink ==
  /\ call = "idle"
  /\ args[1] = "ConnectorConfigS3Sink"
  /\ call' = "flattenKafkaConnectorS3Sink"
  /\ ret' = flattenKafkaConnectorS3Sink(args[2])
  /\ UNCHANGED <<d, args>>

NextConnector ==
  \/ CallFlattenKafkaClusterConnection
  \/ CallFlattenS3Connection
  \/ CallFlattenKafkaConnectorMirrormaker
  \/ CallFlattenKafkaConnectorS3Sink

SpecConnector == InitConnector /\ [][NextConnector]_vars

\* The variant a oneof field holds, "" for none.
VariantOf(oneof) == IF oneof = Nil THEN "" ELSE oneof[1].type

SupportedCluster(cc) ==
  VariantOf(cc.ClusterConnection) \in
    {"ClusterConnection_ThisCluster", "ClusterConnection_ExternalCluster"}

SupportedStorage(s3Conn) == VariantOf(s3Conn.Storage) = "S3Connection_ExternalS3"

\* C25: flattenKafkaClusterConnection returns an error and no map for a
\* connection that is neither this-cluster nor external-cluster and else a
\* map with exactly the one of this_cluster and external_cluster that the
\* connection is; flattenS3Connection returns an error and no map for every
\* storage other than external S3; flattenKafkaConnectorMirrormaker and
\* flattenKafkaConnectorS3Sink return the error of the inner flattener
\* together with a nil list, and a full configuration when there is none.
C25_UnsupportedVariantIsAnError ==
  /\ call = "flattenKafkaClusterConnection" =>
       IF SupportedCluster(args[2])
       THEN /\ ret.err = NoErr
            /\ ("this_cluster" \in DOMAIN ret.val) =
                 (VariantOf(args[2].ClusterConnection) =
                    "ClusterConnection_ThisCluster")
            /\ ("external_cluster" \in DOMAIN ret.val) =
                 (VariantOf(args[2].ClusterConnection) =
                    "ClusterConnection_ExternalCluster")
       ELSE ret.err # NoErr /\ DOMAIN ret.val = {}
  /\ call = "flattenS3Connection" =>
       IF SupportedStorage(args[2])
       THEN ret.err = NoErr /\ "external_s3" \in DOMAIN ret.val
       ELSE ret.err # NoErr /\ DOMAIN ret.val = {}
  /\ call = "flattenKafkaConnectorMirrormaker" =>
       IF SupportedCluster(args[2].SourceCluster) /\
          SupportedCluster(args[2].TargetCluster)
       THEN /\ ret.err = NoErr
            /\ Len(ret.val) = 1
            /\ {"source_cluster", "target_cluster"} \subseteq DOMAIN ret.val[1]
       ELSE /\ ret.val = Nil
            /\ ret.err # NoErr
            /\ ret.err[1].value =
                 (IF SupportedCluster(args[2].SourceCluster)
                  THEN args[2].TargetCluster.Alias
                  ELSE args[2].SourceCluster.Alias)
  /\ call = "flattenKafkaConnectorS3Sink" =>
       IF SupportedStorage(args[2].S3Connection)
       THEN /\ ret.err = NoErr
            /\ Len(ret.val) = 1
            /\ "s3_connection" \in DOMAIN ret.val[1]
       ELSE ret.val = Nil /\ ret.err # NoErr

\* A mirrormaker whose source is this cluster and whose target has no
\* connection type has been flattened.
C25_Witness ==
  /\ call = "flattenKafkaConnectorMirrormaker"
  /\ VariantOf(args[2].SourceCluster.ClusterConnection) =
       "ClusterConnection_ThisCluster"
  /\ args[2].TargetCluster.ClusterConnection = Nil
  /\ ret.err # NoErr

\* An S3 sink whose storage is of a variant the provider does not know has
\* been flattened.
C25_S3Witness ==
  /\ call = "flattenKafkaConnectorS3Sink"
  /\ VariantOf(args[2].S3Connection.Storage) = "S3Connection_OtherStorage"
  /\ ret.err # NoErr

\* An external cluster connection has been flattened.
C25_ExternalWitness ==
  /\ call = "flattenKafkaClusterConnection"
  /\ "external_cluster" \in DOMAIN ret.val
  /\ "this_cluster" \notin DOMAIN ret.val

----------------------------------------------------------------------------
(* What the functions on users and permissions leave in the lists they are *)
(* handed.  A slice argument shares its elements with the caller's slice   *)
(* and a permission is handed over as a pointer, so a sort inside the      *)
(* function is a sort of the caller's list; args holds the caller's lists  *)
(* and is rewritten by a call that writes to them.                         *)

\* allowHosts after AllowHostsSortedToStr: sort.Strings sorts it in place.
AllowHostsAfterToStr(allowHosts) ==
  IF Len(allowHosts) = 0 THEN allowHosts ELSE SortStrings(allowHosts)

userPermissionToStr(permission) ==
  permission.TopicName \o <<":">> \o AccessRoleString(permission.Role) \o <<":","[">> \o
  AllowHostsSortedToStr(permission.AllowHosts) \o <<"]">>

\* The permission behind the pointer after userPermissionToStr.
PermissionAfterToStr(permission) ==
  [permission EXCEPT !.AllowHosts = AllowHostsAfterToStr(@)]

\* The possible contents of permissions after UserPermissionsToStr:
\* sortPermissions has sorted the list in place and userPermissionToStr has
\* been called on every element.
PermissionsAfterToStr(permissions) ==
  {[i \in 1..Len(sorted) |-> PermissionAfterToStr(sorted[i])] :
      sorted \in sortPermissions(permissions)}

\* The string UserPermissionsToStr returns when it leaves the list as after.
UserPermissionsToStr(after) ==
  Join([i \in 1..Len(after) |-> userPermissionToStr(after[i])], <<",">>)

\* Lists of hosts in any order, a host twice among them.
HostLists == SeqUpTo(HostNames, Cardinality(HostNames))

ApiPermissions ==
  [TopicName : {<<"i","n">>, <<"o","u","t">>}, Role : {2},
   AllowHosts : {<<>>, <<<<"h","1">>, <<"h","2">>>>, <<<<"h","2">>, <<"h","1">>>>}]

ApiPermissionLists == SeqUpTo(ApiPermissions, MaxPermissions)

InitArguments ==
  /\ d = EmptyTree
  /\ call = "idle"
  /\ \/ args \in {<<"allowHosts", hosts>> : hosts \in HostLists}
     \/ args \in {<<"permission", p>> : p \in ApiPermissions}
     \/ args \in {<<"permissions", ps>> : ps \in ApiPermissionLists}
     \/ args \in {<<"user", [Name |-> <<"a">>, Permissions |-> ps]>> :
                     ps \in ApiPermissionLists}
     \/ args \in {<<"users", users, <<>>, EmptyMap>> :
                     users \in SeqUpTo(ApiUsers, MaxUsers)}
     \/ args \in {<<"users", currUsers, targetUsers>> :
                     currUsers \in SeqUpTo(CurrentUsers, MaxUsers),
                     targetUsers \in SeqUpTo(TargetUserSpecs, 1)}
  /\ ret = <<>>

CallAllowHostsSortedToStr ==
  /\ call = "idle"
  /\ args[1] = "allowHosts"
  /\ call' = "AllowHostsSortedToStr"
  /\ ret' = AllowHostsSortedToStr(args[2])
  /\ args' = <<"allowHosts", AllowHostsAfterToStr(args[2])>>
  /\ UNCHANGED d

CallUserPermissionToStr ==
  /\ call = "idle"
  /\ args[1] = "permission"
  /\ call' = "userPermissionToStr"
  /\ ret' = userPermissionToStr(args[2])
  /\ args' = <<"permission", PermissionAfterToStr(args[2])>>
  /\ UNCHANGED d

CallUserPermissionsToStr ==
  /\ call = "idle"
  /\ args[1] = "permissions"
  /\ call' = "UserPermissionsToStr"
  /\ \E after \in PermissionsAfterToStr(args[2]) :
        /\ ret' = UserPermissionsToStr(after)
        /\ args' = <<"permissions", after>>
  /\ UNCHANGED d

CallFlattenKafkaUserPermissions ==
  /\ call = "idle"
  /\ args[1] = "user"
  /\ call' = "flattenKafkaUserPermissions"
  /\ ret' = flattenKafkaUserPermissions(args[2])
  /\ UNCHANGED <<d, args>>

CallFlattenKafkaUsersOfList ==
  /\ call = "idle"
  /\ args[1] = "users"
  /\ Len(args) = 4
  /\ call' = "flattenKafkaUsers"
  /\ ret' = flattenKafkaUsers(args[2], args[4])
  /\ UNCHANGED <<d, args>>

CallKafkaUsersDiffOfLists ==
  /\ call = "idle"
  /\ args[1] = "users"
  /\ Len(args) = 3
  /\ call' = "kafkaUsersDiff"
  /\ ret' \in kafkaUsersDiff(args[2], args[3])
  /\ UNCHANGED <<d, args>>

NextArguments ==
  \/ CallAllowHostsSortedToStr
  \/ CallUserPermissionToStr
  \/ CallUserPermissionsToStr
  \/ CallFlattenKafkaUserPermissions
  \/ CallFlattenKafkaUsersOfList
  \/ CallKafkaUsersDiffOfLists

SpecArguments == InitArguments /\ [][NextArguments]_vars

\* C26: after kafkaUsersDiff, flattenKafkaUsers, flattenKafkaUserPermissions,
\* UserPermissionsToStr, userPermissionToStr or AllowHostsSortedToStr the
\* lists that were passed in (the user lists, the permission list, the
\* allow_hosts of each permission) hold the same elements in the same order
\* as before the call.
C26_ArgumentsReadOnly == [][args' = args]_vars

\* The functions that sort nothing leave their arguments as they were.
FlattenAndDiffReadOnly ==
  [][call' \in {"kafkaUsersDiff", "flattenKafkaUsers",
                "flattenKafkaUserPermissions"} => args' = args]_vars

----------------------------------------------------------------------------
(* Several malformed integer settings in one block.                        *)

\* The place in the scan order of the first setting that is malformed.
FirstMalformed ==
  CHOOSE i \in 1..Len(IntParamsRead) :
     /\ IntParamsRead[i][2] \in MalformedIntParams
     /\ \A j \in 1..(i - 1) : IntParamsRead[j][2] \notin MalformedIntParams

\* C27: when two or more integer settings of one kafka_config or one
\* topic_config are malformed, parseKafkaConfig and parseKafkaTopicConfig
\* return no config and the conversion error of the malformed setting that
\* comes first in the order of the scan.
C27_FirstConversionErrorReturned ==
  (call \in {"parseKafkaConfig", "parseKafkaTopicConfig"} /\
   Cardinality(MalformedIntParams) >= 2) =>
     /\ ret.val = Nil
     /\ ret.err = ParseInt(IntBlockRead[IntParamsRead[FirstMalformed][2]]).err

\* Two malformed settings have been parsed and no error has come back.
TwoMalformedAndNoError ==
  /\ call = "parseKafkaTopicConfig"
  /\ Cardinality(MalformedIntParams) >= 2
  /\ ret.err = NoErr

----------------------------------------------------------------------------
(* The hashes of the sets of users, permissions and hosts.  A hash is      *)
(* hashcode.String of the string written to the buffer, a function of that *)
(* string; it is held as the string, so that two hashes differ when the    *)
(* strings do.                                                             *)

\* A hash that joins the hosts in the order the set lists them.
kafkaUserPermissionHashUnsorted(m) ==
  (IF "topic_name" \in DOMAIN m THEN m.topic_name \o <<"-">> ELSE <<>>) \o
  (IF "role" \in DOMAIN m THEN m.role \o <<"-">> ELSE <<>>) \o
  (IF "allow_hosts" \in DOMAIN m THEN Join(m.allow_hosts, <<",">>) \o <<"-">> ELSE <<>>)

kafkaUserPermissionHash(m) ==
  (IF "topic_name" \in DOMAIN m THEN m.topic_name \o <<"-">> ELSE <<>>) \o
  (IF "role" \in DOMAIN m THEN m.role \o <<"-">> ELSE <<>>) \o
  (IF "allow_hosts" \in DOMAIN m
   THEN AllowHostsSortedToStr(parseKafkaPermissionAllowHosts(m.allow_hosts)) \o <<"-">>
   ELSE <<>>)

\* The possible hashes of a user map: the error of expandKafkaPermissions is
\* dropped, and the list it returns goes through UserPermissionsToStr.
kafkaUserHash(m) ==
  {(IF "name" \in DOMAIN m THEN m.name \o <<"-">> ELSE <<>>) \o
   (IF "password" \in DOMAIN m THEN m.password \o <<"-">> ELSE <<>>) \o str :
     str \in IF "permission" \in DOMAIN m
             THEN UNION {{UserPermissionsToStr(after) \o <<"-">> :
                             after \in PermissionsAfterToStr(permissions.val)} :
                           permissions \in expandKafkaPermissions(m.permission)}
             ELSE {<<>>}}

kafkaHostHash(m) == IF "name" \in DOMAIN m THEN m.name \o <<"-">> ELSE <<>>

\* The map of the host at place i of hosts; role and health are written with
\* String(), the name of the member.
FlattenedHost(hosts, i) ==
  [name |-> hosts[i].Name,
   zone_id |-> hosts[i].ZoneId,
   role |-> <<<<"K","A","F","K","A">>, <<"Z","O","O","K","E","E","P","E","R">>>>[hosts[i].Role],
   health |-> <<<<"A","L","I","V","E">>, <<"D","E","A","D">>, <<"D","E","G","R","A","D","E","D">>>>[hosts[i].Health],
   subnet_id |-> hosts[i].SubnetId,
   assign_public_ip |-> hosts[i].AssignPublicIp]

\* The set keeps one element for each hash: of the maps with one hash the
\* one added first.
flattenKafkaHosts(hosts) ==
  {FlattenedHost(hosts, i) : i \in
     {i \in 1..Len(hosts) :
        \A j \in 1..(i - 1) :
           kafkaHostHash(FlattenedHost(hosts, j)) #
             kafkaHostHash(FlattenedHost(hosts, i))}}

\* Permission blocks with the hosts in both orders and without hosts, and a
\* block whose role is no member name.
HashedPermissions ==
  [topic_name : {<<"i","n">>, <<"o","u","t">>}, role : {<<"A","C","C","E","S","S","_","R","O","L","E","_","P","R","O","D","U","C","E","R">>},
   allow_hosts : {<<>>, <<<<"h","1">>, <<"h","2">>>>, <<<<"h","2">>, <<"h","1">>>>}] \cup
  {[topic_name |-> <<"i","n">>, role |-> <<"r","e","a","d","e","r">>, allow_hosts |-> <<>>],
   [topic_name |-> <<"i","n">>, role |-> <<"A","C","C","E","S","S","_","R","O","L","E","_","P","R","O","D","U","C","E","R">>]}

\* The sets of at most two permission blocks, listed in each order.
HashedPermissionSets ==
  LET blocks == {p \in HashedPermissions : "allow_hosts" \in DOMAIN p}
  IN  {<<>>} \cup {<<p>> : p \in blocks} \cup
      {pq \in blocks \X blocks : PermissionIdentity(pq[1]) # PermissionIdentity(pq[2])}

\* User maps: one name and password with every permission set, and maps
\* that differ from those in the name, in the password, or have none.
HashedUsers ==
  {[name |-> <<"a">>, password |-> <<"p">>, permission |-> ps] :
      ps \in HashedPermissionSets} \cup
  {[name |-> <<"b">>, password |-> <<"p">>, permission |-> <<>>],
   [name |-> <<"a">>, password |-> <<"q">>, permission |-> <<>>],
   [name |-> <<"a">>, permission |-> <<>>]}

ApiHosts ==
  [Name : {<<"h","1">>, <<"h","2">>}, ZoneId : {<<"z","a">>, <<"z","b">>}, Role : {1, 2}, Health : {1},
   SubnetId : {<<"s">>}, AssignPublicIp : {FALSE}]

\* The lists of one, two and three hosts.
ApiHostLists ==
  {<<>>} \cup {<<a>> : a \in ApiHosts} \cup {<<a, b>> : a, b \in ApiHosts} \cup
  {<<a, b, c>> : a, b, c \in ApiHosts}

InitHash ==
  /\ d = EmptyTree
  /\ call = "idle"
  /\ \/ args \in {<<"permission", m1, m2>> : m1, m2 \in HashedPermissions}
     \/ args \in {<<"user", u1, u2>> : u1, u2 \in HashedUsers}
     \/ args \in {<<"host", FlattenedHost(<<h1>>, 1), FlattenedHost(<<h2>>, 1)>> :
                     h1, h2 \in ApiHosts}
     \/ args \in {<<"hosts", hosts>> : hosts \in ApiHostLists}
  /\ ret = <<>>

\* schema.Set hashes two maps.
CallKafkaUserPermissionHash ==
  /\ call = "idle"
  /\ args[1] = "permission"
  /\ call' = "kafkaUserPermissionHash"
  /\ ret' = <<kafkaUserPermissionHash(args[2]), kafkaUserPermissionHash(args[3])>>
  /\ UNCHANGED <<d, args>>

CallKafkaUserHash ==
  /\ call = "idle"
  /\ args[1] = "user"
  /\ call' = "kafkaUserHash"
  /\ \E h1 \in kafkaUserHash(args[2]), h2 \in kafkaUserHash(args[3]) :
        ret' = <<h1, h2>>
  /\ UNCHANGED <<d, args>>

CallKafkaHostHash ==
  /\ call = "idle"
  /\ args[1] = "host"
  /\ call' = "kafkaHostHash"
  /\ ret' = <<kafkaHostHash(args[2]), kafkaHostHash(args[3])>>
  /\ UNCHANGED <<d, args>>

CallFlattenKafkaHosts ==
  /\ call = "idle"
  /\ args[1] = "hosts"
  /\ call' = "flattenKafkaHosts"
  /\ ret' = flattenKafkaHosts(args[2])
  /\ UNCHANGED <<d, args>>

NextHash ==
  \/ CallKafkaUserPermissionHash
  \/ CallKafkaUserHash
  \/ CallKafkaHostHash
  \/ CallFlattenKafkaHosts

SpecHash == InitHash /\ [][NextHash]_vars

\* The hosts of a permission map as a set, none for a map without the key.
AllowHostsOf(m) ==
  IF "allow_hosts" \in DOMAIN m THEN <<TRUE, Range(m.allow_hosts)>>
  ELSE <<FALSE, {}>>

\* What a permission map is, the order of its hosts apart.
HashedPermissionIdentity(m) == <<m.topic_name, m.role, AllowHostsOf(m)>>

\* What a user map is, the order of its permissions and of their hosts apart.
HashedUserIdentity(m) ==
  <<m.name,
    IF "password" \in DOMAIN m THEN <<m.password>> ELSE <<>>,
    {HashedPermissionIdentity(m.permission[i]) : i \in 1..Len(m.permission)}>>

\* C28: kafkaUserPermissionHash is the same for two permission maps with the
\* same topic_name, the same role and the same set of allow_hosts, whatever
\* the order of the hosts; kafkaUserHash is the same for two user maps with
\* the same name, the same password and the same set of permissions,
\* whatever the order of the permissions and of their hosts; kafkaHostHash
\* is the same for two host maps with the same name; and the set
\* flattenKafkaHosts returns has one member for each name of the list.
C28_HashesIndependentOfOrder ==
  /\ (call = "kafkaUserPermissionHash" /\
      HashedPermissionIdentity(args[2]) = HashedPermissionIdentity(args[3]))
       => ret[1] = ret[2]
  /\ (call = "kafkaUserHash" /\
      HashedUserIdentity(args[2]) = HashedUserIdentity(args[3]))
       => ret[1] = ret[2]
  /\ (call = "kafkaHostHash" /\ args[2].name = args[3].name) => ret[1] = ret[2]
  /\ call = "flattenKafkaHosts" =>
       /\ \A m1, m2 \in ret : m1.name = m2.name => m1 = m2
       /\ {m.name : m \in ret} = {args[2][i].Name : i \in 1..Len(args[2])}

\* Two user maps with the same two permissions in different order, the
\* hosts of one permission in different order, have been hashed.
C28_Witness ==
  /\ call = "kafkaUserHash"
  /\ args[2] # args[3]
  /\ Len(args[2].permission) = 2
  /\ Len(args[3].permission) = 2
  /\ args[2].permission[1].topic_name # args[3].permission[1].topic_name
  /\ HashedUserIdentity(args[2]) = HashedUserIdentity(args[3])
  /\ \E i, j \in 1..2 :
        /\ Range(args[2].permission[i].allow_hosts) =
             Range(args[3].permission[j].allow_hosts)
        /\ args[2].permission[i].allow_hosts # args[3].permission[j].allow_hosts

\* Two permission maps that differ in the order of the hosts only.
C28_PermissionWitness ==
  /\ call = "kafkaUserPermissionHash"
  /\ args[2] # args[3]
  /\ HashedPermissionIdentity(args[2]) = HashedPermissionIdentity(args[3])

\* Three hosts, two of one name in different zones, have been flattened.
C28_HostsWitness ==
  /\ call = "flattenKafkaHosts"
  /\ Len(args[2]) = 3
  /\ args[2][1].Name = args[2][3].Name
  /\ args[2][1].ZoneId # args[2][3].ZoneId
  /\ Cardinality(ret) = 2

----------------------------------------------------------------------------
(* The diff of the users applied, and taken again.                         *)

\* The user the API lists for a spec that was added.
UserOfSpec(spec) == [Name |-> spec.Name, Permissions |-> spec.Permissions]

\* The users after the diff that was returned has been applied to the
\* current users: those whose name is in the delete list are gone, those of
\* the add list are there.
UsersAfterDiff ==
  LET kept(user) == user.Name \notin Range(ret.toDel)
  IN  SelectSeq(args.currUsers, kept) \o
      [k \in 1..Len(ret.toAdd) |-> UserOfSpec(ret.toAdd[k])]

\* C29: the names of the delete list and the names of the add list of
\* kafkaUsersDiff are disjoint; the current users without the deleted names
\* and with the add list have the names of the desired list and no other;
\* and kafkaUsersDiff on those users and the same desired list returns an
\* empty delete list and an empty add list.
C29_DiffConvergesInOneStep ==
  call = "kafkaUsersDiff" =>
    /\ Range(ret.toDel) \cap UserNamesOf(ret.toAdd) = {}
    /\ UserNamesOf(UsersAfterDiff) = UserNamesOf(args.targetUsers)
    /\ kafkaUsersDiff(UsersAfterDiff, args.targetUsers) =
         {[toDel |-> <<>>, toAdd |-> <<>>]}

\* A diff that deletes one user, keeps one and adds one.
C29_Witness ==
  /\ call = "kafkaUsersDiff"
  /\ UserNamesOf(args.currUsers) = {<<"a">>, <<"b">>}
  /\ UserNamesOf(args.targetUsers) = {<<"b">>, <<"c">>}
  /\ ret.toDel = <<<<"a">>>>
  /\ Len(ret.toAdd) = 1
  /\ UserNamesOf(UsersAfterDiff) = {<<"b">>, <<"c">>}

\* A desired list that holds one new name twice: both entries are added.
C29_TwiceWitness ==
  /\ call = "kafkaUsersDiff"
  /\ Len(ret.toAdd) = 2
  /\ ret.toAdd[1].Name = ret.toAdd[2].Name

----------------------------------------------------------------------------
(* diffByEntityKey, one turn of its loop at a time.  args holds what       *)
(* GetChange reads: the list of the state (old), the list of the plan      *)
(* (new), the path of the list and the index key.  While the function runs *)
(* ret holds its variables i and result.                                   *)

MaxEntities == 2

\* The loop has no bound of its own; the model stops counting at MaxIndex.
MaxIndex == 4

\* fmt.Sprintf("%s.%d", path, i) for an index of one digit.
EntityPath(path, i) ==
  path \o <<".", <<"0", "1", "2", "3", "4", "5", "6", "7", "8", "9">>[i + 1]>>

\* A GetChange that gives, for an index past the end of a list, an entity
\* whose string attributes are empty strings.
GetChangeZeroValued(list, i) ==
  IF i < Len(list) THEN list[i + 1] ELSE [name |-> <<>>, partitions |-> 0]

\* One side of d.GetChange(key) for the element i (from 0) of a list: the
\* element, and a map without keys for an index past the end.
GetChange(list, i) == IF i < Len(list) THEN list[i + 1] ELSE EmptyMap

\* entity[indexKey].(string): ok for an attribute that is there and is a
\* string; name is the string attribute of the entities.
HasStringValue(entity, indexKey) == indexKey \in DOMAIN entity /\ indexKey = "name"

\* result[key] of the Go map: the zero entityDiff for a key that is not in.
EntityDiffAt(result, key) ==
  IF key \in DOMAIN result THEN result[key]
  ELSE [OldEntityKey |-> <<>>, OldEntity |-> EmptyMap,
        NewEntityKey |-> <<>>, NewEntity |-> EmptyMap]

\* result after the first if of a turn of the loop.
WithOldEntity(result, oldEntity, indexKey, key) ==
  IF HasStringValue(oldEntity, indexKey)
  THEN (oldEntity[indexKey] :>
          [EntityDiffAt(result, oldEntity[indexKey]) EXCEPT
             !.OldEntity = oldEntity, !.OldEntityKey = key]) @@ result
  ELSE result

\* result after the second if of a turn of the loop.
WithNewEntity(result, newEntity, indexKey, key) ==
  IF HasStringValue(newEntity, indexKey) /\ newEntity[indexKey] # <<>>
  THEN (newEntity[indexKey] :>
          [EntityDiffAt(result, newEntity[indexKey]) EXCEPT
             !.NewEntity = newEntity, !.NewEntityKey = key]) @@ result
  ELSE result

OldEntities == [name : {<<"a">>, <<"b">>, <<>>}, partitions : {1}]

NewEntities == [name : {<<"a">>, <<"b">>, <<>>}, partitions : {2}]

InitDiffByEntityKey ==
  /\ d = EmptyTree
  /\ call = "idle"
  /\ args \in [old : SeqUpTo(OldEntities, MaxEntities),
               new : SeqUpTo(NewEntities, MaxEntities),
               path : {<<"t","o","p","i","c">>},
               indexKey : {"name", "partitions"}]
  /\ ret = [i |-> 0, result |-> EmptyMap]

\* The function is entered: result is empty and i is 0.
CallDiffByEntityKey ==
  /\ call = "idle"
  /\ call' = "diffByEntityKey"
  /\ ret' = [i |-> 0, result |-> EmptyMap]
  /\ UNCHANGED <<d, args>>

\* One turn of the loop: the entities at i are read and recorded; the loop
\* is left when neither has a string under the index key, and result is
\* returned.
DiffByEntityKeyLoop ==
  /\ call = "diffByEntityKey"
  /\ ret.i < MaxIndex
  /\ LET key       == EntityPath(args.path, ret.i)
         oldEntity == GetChange(args.old, ret.i)
         newEntity == GetChange(args.new, ret.i)
         empty     == /\ ~HasStringValue(oldEntity, args.indexKey)
                      /\ ~HasStringValue(newEntity, args.indexKey)
     IN  /\ ret' = [i |-> IF empty THEN ret.i ELSE ret.i + 1,
                    result |-> WithNewEntity(
                                  WithOldEntity(ret.result, oldEntity,
                                                args.indexKey, key),
                                  newEntity, args.indexKey, key)]
         /\ call' = IF empty THEN "returned" ELSE "diffByEntityKey"
  /\ UNCHANGED <<d, args>>

NextDiffByEntityKey == CallDiffByEntityKey \/ DiffByEntityKeyLoop

SpecDiffByEntityKey ==
  /\ InitDiffByEntityKey
  /\ [][NextDiffByEntityKey]_vars
  /\ WF_vars(NextDiffByEntityKey)

\* The first index (from 0) at which neither list has an entity with a
\* string under the index key.
FirstEmptyIndex ==
  CHOOSE i \in 0..MaxEntities :
     /\ ~HasStringValue(GetChange(args.old, i), args.indexKey)
     /\ ~HasStringValue(GetChange(args.new, i), args.indexKey)
     /\ \A j \in 0..(i - 1) :
           \/ HasStringValue(GetChange(args.old, j), args.indexKey)
           \/ HasStringValue(GetChange(args.new, j), args.indexKey)

\* The last index below n at which list has an entity with the key k.
LastIndexOf(list, k, n) ==
  CHOOSE i \in 0..(n - 1) :
     /\ i < Len(list) /\ list[i + 1].name = k
     /\ \A j \in (i + 1)..(n - 1) : ~(j < Len(list) /\ list[j + 1].name = k)

\* The keys of the entities of list at the indices below n.
KeysBelow(list, n) == {list[i + 1].name : i \in {i \in 0..(n - 1) : i < Len(list)}}

\* What diffByEntityKey has returned: the scan went up to the first empty
\* index; every old entity before it has an entry under its key, every new
\* entity before it with a non-empty key has one, and there is no other
\* entry; an entry holds the old and the new entity of its key (the last
\* one of a key that occurs twice in a list) with their paths, so a key of
\* both lists has one entry with both; the entry of the empty key holds no
\* new entity.
DiffByEntityKeyReturned ==
  LET n       == FirstEmptyIndex
      oldKeys == KeysBelow(args.old, n)
      newKeys == KeysBelow(args.new, n) \ {<<>>}
  IN  /\ ret.i = n
      /\ DOMAIN ret.result = oldKeys \cup newKeys
      /\ \A k \in oldKeys :
            /\ ret.result[k].OldEntity = args.old[LastIndexOf(args.old, k, n) + 1]
            /\ ret.result[k].OldEntityKey =
                 EntityPath(args.path, LastIndexOf(args.old, k, n))
      /\ \A k \in newKeys :
            /\ ret.result[k].NewEntity = args.new[LastIndexOf(args.new, k, n) + 1]
            /\ ret.result[k].NewEntityKey =
                 EntityPath(args.path, LastIndexOf(args.new, k, n))
      /\ \A k \in DOMAIN ret.result :
            /\ k \notin oldKeys => ret.result[k].OldEntity = EmptyMap
            /\ k \notin newKeys => ret.result[k].NewEntity = EmptyMap

\* C30: diffByEntityKey returns for every old and new list: it reads the
\* indices 0, 1, 2, ... and stops at the first one at which neither the old
\* nor the new entity has a string under the index key; before that index
\* every old entity is recorded under its key and every new entity under
\* its key when the key is not empty, a key of both lists has one entry
\* with both entities, and a new entity with an empty key is not recorded.
C30_DiffByEntityKeyTerminates ==
  /\ <>(call = "returned")
  /\ [](call = "returned" => DiffByEntityKeyReturned)

\* The function has returned for lists of different lengths with a key in
\* both and a new entity with an empty key.
C30_Witness ==
  /\ call = "returned"
  /\ args.indexKey = "name"
  /\ Len(args.old) = 1
  /\ Len(args.new) = 2
  /\ args.old[1].name = <<"a">>
  /\ args.new[1].name = <<>>
  /\ args.new[2].name = <<"a">>
  /\ ret.i = 2
  /\ DOMAIN ret.result = {<<"a">>}
  /\ ret.result[<<"a">>].OldEntityKey = <<"t","o","p","i","c",".","0">>
  /\ ret.result[<<"a">>].NewEntityKey = <<"t","o","p","i","c",".","1">>

\* The function has returned at index 0 for an index key that is no string
\* attribute.
C30_NoStringWitness ==
  /\ call = "returned"
  /\ args.indexKey = "partitions"
  /\ Len(args.old) = 2
  /\ ret.i = 0
  /\ ret.result = EmptyMap
====
